---- MODULE Spec2Model ----
(***************************************************************************)
(* Handshake of the bitcoin wire protocol as implemented by the crates     *)
(* `net` (wire_protocol/*, conversation.rs) and the older snapshot in      *)
(* src/peer: the frame codec over the streaming IOBuffer, the handshake    *)
(* conversation handler and the connection driver proceed_conversation.   *)
(*                                                                         *)
(* Bytes are integers 0..255.  Values wider than 31 bits (u32, i64, u64)   *)
(* are kept as base-256 digit tuples, most significant digit first, so     *)
(* that to_le_bytes / from_le_bytes are real conversions (a reversal).     *)
(* The service bit mask (u64) is the set of its set bit positions.         *)
(***************************************************************************)
EXTENDS Integers, Sequences, FiniteSets, TLC

\* ------------------------------------------------------------------ bounds
\* Longest inbound script of the peer, in frames.
MaxScriptFrames == 3
\* Reads of the scripted run that end inside a frame (one byte, a bare header).
MaxSplitReads == 2
\* Complete frames placed in the buffer by the codec harness.
MaxCodecFrames == 2
\* Handler calls made by the handler harness.
MaxCalls == 4
\* Calls made on the IOBuffer by the buffer harness.
MaxBufferOps == 3
\* Calls made on one ByteBufferParser by the parser harness.
MaxParserCalls == 3
\* Iterations of the driver's inner loop that end in the Err arm which are
\* followed before the model stops counting them.
MaxErrIters == 2

\* ------------------------------------------------------------- primitives
Byte == 0..255

None == [some |-> FALSE]
Some(v) == [some |-> TRUE, val |-> v]

Ok(v) == [ok |-> TRUE, val |-> v]
Err(e) == [ok |-> FALSE, err |-> e]

Min(a, b) == IF a < b THEN a ELSE b

RECURSIVE Reverse(_)
Reverse(s) == IF s = <<>> THEN <<>> ELSE Reverse(Tail(s)) \o <<Head(s)>>

Zeros(n) == [i \in 1..n |-> 0]

\* u32 / i64 / u64 digit tuples <-> little-endian bytes
to_le_bytes(digits) == Reverse(digits)
from_le_bytes(bytes) == Reverse(bytes)
\* u16::to_be_bytes / from_be_bytes for a port number 0..65535
u16_to_be_bytes(p) == <<p \div 256, p % 256>>
u16_from_be_bytes(b) == b[1] * 256 + b[2]

\* `as u32` of a length, as a digit tuple
u32_of(n) == <<(n \div 16777216) % 256, (n \div 65536) % 256, (n \div 256) % 256, n % 256>>
\* `as usize` of a u32 digit tuple; lengths of 2^31 and more saturate, which
\* no comparison with a buffer length (at most 1024) can tell apart.
as_usize(d) ==
    IF d[1] >= 128 THEN 2147483647
    ELSE d[1] * 16777216 + d[2] * 65536 + d[3] * 256 + d[4]

\* i32::to_le_bytes / i32::from_le_bytes (two's complement)
i32_to_le_bytes(v) == [i \in 1..4 |-> (v \div (256 ^ (i - 1))) % 256]
i32_from_le_bytes(b) ==
    b[1] + b[2] * 256 + b[3] * 65536
    + (IF b[4] >= 128 THEN b[4] - 256 ELSE b[4]) * 16777216

\* u64 bit set <-> little-endian bytes
RECURSIVE SumPow2(_)
SumPow2(bits) ==
    IF bits = {} THEN 0
    ELSE LET k == CHOOSE x \in bits : TRUE IN 2 ^ k + SumPow2(bits \ {k})
mask_to_le_bytes(mask) ==
    [i \in 1..8 |-> SumPow2({k - 8 * (i - 1) : k \in {x \in mask : x \div 8 = i - 1}})]
mask_from_le_bytes(b) ==
    {k \in 0..63 : (b[(k \div 8) + 1] \div (2 ^ (k % 8))) % 2 = 1}

\* ------------------------------------------------------------------ sha256
\* sha256(sha256(payload))[..4].  The digest of the empty payload is the
\* real one (5d f6 e0 e2); for any other payload the digest is a
\* deterministic stand-in that depends on every byte and its position.
RECURSIVE WeightedSum(_, _, _)
WeightedSum(s, lo, hi) ==
    IF lo > hi THEN 0
    ELSE IF lo = hi THEN ((lo * 31 + 7) * (s[lo] + 1)) % 65521
    ELSE LET mid == (lo + hi) \div 2
         IN (WeightedSum(s, lo, mid) + WeightedSum(s, mid + 1, hi)) % 65521
sha256d4(payload) ==
    IF payload = <<>> THEN <<93, 246, 224, 226>>
    ELSE LET w == WeightedSum(payload, 1, Len(payload))
         IN <<w % 256, w \div 256, Len(payload) % 256, (w * 7 + 13) % 256>>

\* ---------------------------------------------------------------- node.rs
Chains == <<"Regtest", "Testnet3">>

magic_value(chain) ==
    IF chain = "Regtest" THEN <<218, 181, 191, 250>>   \* 0xDAB5BFFA
    ELSE <<7, 9, 17, 11>>                               \* 0x0709110B

Chain_try_from(magic) ==
    IF \E i \in 1..Len(Chains) : magic_value(Chains[i]) = magic
    THEN Ok(Chains[CHOOSE i \in 1..Len(Chains) :
                    /\ magic_value(Chains[i]) = magic
                    /\ \A j \in 1..(i - 1) : magic_value(Chains[j]) # magic])
    ELSE Err("No chain known having magic value")

NodeServices == <<"NodeNetwork">>
as_u64(service) == IF service = "NodeNetwork" THEN {0} ELSE {}
BitAnd(a, b) == a \cap b

RECURSIVE as_bitmask_from(_, _)
as_bitmask_from(services, bitset) ==
    IF services = <<>> THEN bitset
    ELSE as_bitmask_from(Tail(services), BitAnd(bitset, as_u64(Head(services))))
as_bitmask(services) == as_bitmask_from(services, {})

RECURSIVE from_bitmask_from(_, _)
from_bitmask_from(mask, i) ==
    IF i > Len(NodeServices) THEN <<>>
    ELSE (IF BitAnd(mask, as_u64(NodeServices[i])) # {} THEN <<NodeServices[i]>> ELSE <<>>)
         \o from_bitmask_from(mask, i + 1)
from_bitmask(mask) == from_bitmask_from(mask, 1)

\* --------------------------------------------------------------- buffer.rs
BUFFER_SIZE == 1024

ByteBufferParser_new(buf) == [buffer |-> buf, pos |-> 0]
pos(parser) == parser.pos
remaining(parser) == Len(parser.buffer) - parser.pos
eof_check(parser, want_bytes) ==
    IF remaining(parser) < want_bytes THEN Err("UnexpectedEof") ELSE Ok(TRUE)

\* Every parser operation returns [ok, val, parser] or [ok, err, parser].
skip_bytes(parser, count) ==
    IF ~eof_check(parser, count).ok
    THEN [ok |-> FALSE, err |-> "UnexpectedEof", parser |-> parser]
    ELSE [ok |-> TRUE, val |-> TRUE, parser |-> [parser EXCEPT !.pos = @ + count]]
\* read handing out what is left when less than size bytes remain
read_partial(parser, size) ==
    IF ~eof_check(parser, size).ok
    THEN [ok |-> TRUE,
          val |-> SubSeq(parser.buffer, parser.pos + 1, Len(parser.buffer)),
          parser |-> [parser EXCEPT !.pos = Len(parser.buffer)]]
    ELSE [ok |-> TRUE,
          val |-> SubSeq(parser.buffer, parser.pos + 1, parser.pos + size),
          parser |-> [parser EXCEPT !.pos = @ + size]]
read(parser, size) ==
    IF ~eof_check(parser, size).ok
    THEN [ok |-> FALSE, err |-> "UnexpectedEof", parser |-> parser]
    ELSE [ok |-> TRUE,
          val |-> SubSeq(parser.buffer, parser.pos + 1, parser.pos + size),
          parser |-> [parser EXCEPT !.pos = @ + size]]
read_u32_le(parser) ==
    LET r == read(parser, 4) IN IF r.ok THEN [r EXCEPT !.val = from_le_bytes(@)] ELSE r
read_i32_le(parser) ==
    LET r == read(parser, 4) IN IF r.ok THEN [r EXCEPT !.val = i32_from_le_bytes(@)] ELSE r
read_u64_le(parser) ==
    LET r == read(parser, 8) IN IF r.ok THEN [r EXCEPT !.val = mask_from_le_bytes(@)] ELSE r
read_i64_le(parser) ==
    LET r == read(parser, 8) IN IF r.ok THEN [r EXCEPT !.val = from_le_bytes(@)] ELSE r
read_u16_be(parser) ==
    LET r == read(parser, 2) IN IF r.ok THEN [r EXCEPT !.val = u16_from_be_bytes(@)] ELSE r

\* IpAddr::from([u8; 16]) is always an IPv6 address.
parse_net_addr(parser) ==
    LET m == read_u64_le(parser) IN
    IF ~m.ok THEN m ELSE
    LET ip == read(m.parser, 16) IN
    IF ~ip.ok THEN ip ELSE
    LET port == read_u16_be(ip.parser) IN
    IF ~port.ok THEN port ELSE
    [ok |-> TRUE,
     val |-> <<from_bitmask(m.val), [v6 |-> TRUE, octets |-> ip.val, port |-> port.val]>>,
     parser |-> port.parser]

to_ipv6_mapped(octets4) == Zeros(10) \o <<255, 255>> \o octets4
append_net_addr(buf, service, addr) ==
    buf \o mask_to_le_bytes(as_bitmask(service))
        \o (IF addr.v6 THEN addr.octets ELSE to_ipv6_mapped(addr.octets))
        \o u16_to_be_bytes(addr.port)

\* IOBuffer: the whole array and the mark.
IOBuffer_default == [buffer |-> Zeros(BUFFER_SIZE), mark |-> 0]
content(b) == SubSeq(b.buffer, 1, b.mark)
expose_writable_part(b) == SubSeq(b.buffer, b.mark + 1, Len(b.buffer))
\* what a read of `bytes` into expose_writable_part leaves in the array
fill_writable_part(b, bytes) ==
    [b EXCEPT !.buffer = SubSeq(@, 1, b.mark) \o bytes
                         \o SubSeq(@, b.mark + Len(bytes) + 1, Len(@))]
rotate_left(arr, k) == SubSeq(arr, k + 1, Len(arr)) \o SubSeq(arr, 1, k)
\* Both return Ok(buffer) or Err("assert") when the assertion fails (a panic).
\* register_added_content without its assertion
register_added_content_unchecked(b, size) ==
    Ok([b EXCEPT !.mark = @ + size])

register_added_content(b, size) ==
    IF ~(b.mark + size <= Len(b.buffer)) THEN Err("assert")
    ELSE Ok([b EXCEPT !.mark = @ + size])
\* shift_left that lowers the mark and leaves the bytes where they are
shift_left_without_rotate(b, size) ==
    IF ~(size <= b.mark) THEN Err("assert")
    ELSE Ok([buffer |-> b.buffer, mark |-> b.mark - size])
\* shift_left turning the array the other way
shift_left_rotating_right(b, size) ==
    IF ~(size <= b.mark) THEN Err("assert")
    ELSE Ok([buffer |-> rotate_left(b.buffer, Len(b.buffer) - size), mark |-> b.mark - size])

shift_left(b, size) ==
    IF ~(size <= b.mark) THEN Err("assert")
    ELSE Ok([buffer |-> rotate_left(b.buffer, size), mark |-> b.mark - size])

\* ---------------------------------------------------------- raw_message.rs
Commands == <<"Version", "Verack", "Ping", "Pong">>

Command_as_bytes(command) ==
    CASE command = "Version" -> <<118, 101, 114, 115, 105, 111, 110>> \o Zeros(5)
      [] command = "Verack" -> <<118, 101, 114, 97, 99, 107>> \o Zeros(6)
      [] command = "Ping" -> <<112, 105, 110, 103>> \o Zeros(8)
      [] command = "Pong" -> <<112, 111, 110, 103>> \o Zeros(8)

Command_try_from(value) ==
    IF \E i \in 1..Len(Commands) : Command_as_bytes(Commands[i]) = value
    THEN Ok(Commands[CHOOSE i \in 1..Len(Commands) : Command_as_bytes(Commands[i]) = value])
    ELSE Err("do not represent a known bitcoin command")

RawMessage_new(chain, command, payload) ==
    [chain |-> chain, command |-> command, payload |-> payload]

\* to_bytes with the payload length written most significant byte first
RawMessage_to_bytes_length_be(raw) ==
    to_le_bytes(magic_value(raw.chain))
    \o Command_as_bytes(raw.command)
    \o u32_of(Len(raw.payload))
    \o sha256d4(raw.payload)
    \o raw.payload
RawMessage_to_bytes(raw) ==
    to_le_bytes(magic_value(raw.chain))
    \o Command_as_bytes(raw.command)
    \o to_le_bytes(u32_of(Len(raw.payload)))
    \o sha256d4(raw.payload)
    \o raw.payload

verify_checksum(payload, checksum) ==
    IF checksum = sha256d4(payload) THEN Ok(TRUE) ELSE Err("checksum error")

\* String::from_utf8(bytes) succeeds
IsCont(b) == b \in 128..191
RECURSIVE from_utf8_ok(_, _)
from_utf8_ok(s, i) ==
    IF i > Len(s) THEN TRUE
    ELSE LET b == s[i]
             c(k) == IF i + k <= Len(s) THEN s[i + k] ELSE 0
         IN CASE b < 128 -> from_utf8_ok(s, i + 1)
              [] b \in 194..223 -> IsCont(c(1)) /\ from_utf8_ok(s, i + 2)
              [] b = 224 -> c(1) \in 160..191 /\ IsCont(c(2)) /\ from_utf8_ok(s, i + 3)
              [] b \in (225..236) \cup (238..239) ->
                    IsCont(c(1)) /\ IsCont(c(2)) /\ from_utf8_ok(s, i + 3)
              [] b = 237 -> c(1) \in 128..159 /\ IsCont(c(2)) /\ from_utf8_ok(s, i + 3)
              [] b = 240 ->
                    c(1) \in 144..191 /\ IsCont(c(2)) /\ IsCont(c(3)) /\ from_utf8_ok(s, i + 4)
              [] b \in 241..243 ->
                    IsCont(c(1)) /\ IsCont(c(2)) /\ IsCont(c(3)) /\ from_utf8_ok(s, i + 4)
              [] b = 244 ->
                    c(1) \in 128..143 /\ IsCont(c(2)) /\ IsCont(c(3)) /\ from_utf8_ok(s, i + 4)
              [] OTHER -> FALSE

\* The binaries install the logger at LevelFilter::Debug, so the arguments
\* of log::debug! are evaluated.
LogDebugEnabled == TRUE

HEADER_LEN == 4 + 12 + 4 + 4

\* The result is [outcome, buffer] with outcome one of
\*   "Message" (and raw), "SkippedMessage", "NoMessage", "Err" (and err),
\*   "Panic" (an unwrap or an assertion failed);
\* buffer is the IOBuffer as the call leaves it.  The function is written
\* as a chain of steps, each handing what it read to the next.

\* lines 120-136: command resolved, the frame's bytes consumed
try_consume_finish(buffer, chain, payload, command, shifted) ==
    IF ~shifted.ok
    THEN [outcome |-> "Panic", buffer |-> buffer]
    ELSE IF ~command.ok
    THEN [outcome |-> "SkippedMessage", buffer |-> shifted.val]
    ELSE [outcome |-> "Message",
          raw |-> [chain |-> chain, command |-> command.val, payload |-> payload],
          buffer |-> shifted.val]

\* the frame taken off the buffer with its header counted twice
try_consume_payload_header_counted_twice(buffer, chain, command_string, checksum, payload) ==
    IF ~verify_checksum(payload.val, checksum).ok
    THEN [outcome |-> "Err", err |-> "checksum error", buffer |-> buffer]
    ELSE try_consume_finish(buffer, chain, payload.val,
                            Command_try_from(command_string),
                            shift_left(buffer, pos(payload.parser) + HEADER_LEN))

\* lines 117-118: payload read, checksum verified
try_consume_payload(buffer, chain, command_string, checksum, payload) ==
    IF ~verify_checksum(payload.val, checksum).ok
    THEN [outcome |-> "Err", err |-> "checksum error", buffer |-> buffer]
    ELSE try_consume_finish(buffer, chain, payload.val,
                            Command_try_from(command_string),
                            shift_left(buffer, pos(payload.parser)))

\* the header taken off the buffer although its payload is not all there
try_consume_checksum_header_consumed(buffer, chain, command_string, payload_len, checksum) ==
    IF remaining(checksum.parser) < payload_len
    THEN [outcome |-> "NoMessage", buffer |-> shift_left(buffer, pos(checksum.parser)).val]
    ELSE try_consume_payload(buffer, chain, command_string, checksum.val,
                             read(checksum.parser, payload_len))

\* lines 111-115: checksum field read, payload completeness tested
try_consume_checksum(buffer, chain, command_string, payload_len, checksum) ==
    IF remaining(checksum.parser) < payload_len
    THEN [outcome |-> "NoMessage", buffer |-> buffer]
    ELSE try_consume_payload(buffer, chain, command_string, checksum.val,
                             read(checksum.parser, payload_len))

\* lines 108-110: command tag read and logged, payload length read
try_consume_length(buffer, chain, command_string, payload_len) ==
    try_consume_checksum(buffer, chain, command_string,
                         as_usize(payload_len.val), read(payload_len.parser, 4))
try_consume_command(buffer, chain, command_string) ==
    IF LogDebugEnabled /\ ~from_utf8_ok(command_string.val, 1)
    THEN [outcome |-> "Panic", buffer |-> buffer]
    ELSE try_consume_length(buffer, chain, command_string.val,
                            read_u32_le(command_string.parser))

\* lines 102-106: magic read, mapped to a chain, compared
\* the magic mapped to a chain and never compared with expected_chain
try_consume_chain_unchecked(buffer, expected_chain, parser, chain) ==
    IF ~chain.ok
    THEN [outcome |-> "Err", err |-> chain.err, buffer |-> buffer]
    ELSE try_consume_command(buffer, chain.val, read(parser, 12))
try_consume_chain(buffer, expected_chain, parser, chain) ==
    IF ~chain.ok
    THEN [outcome |-> "Err", err |-> chain.err, buffer |-> buffer]
    ELSE IF chain.val # expected_chain
    THEN [outcome |-> "Err", err |-> "expected network chain", buffer |-> buffer]
    ELSE try_consume_command(buffer, chain.val, read(parser, 12))
try_consume_magic(buffer, expected_chain, magic) ==
    try_consume_chain(buffer, expected_chain, magic.parser, Chain_try_from(magic.val))

\* lines 95-100
try_consume_header(buffer, expected_chain, parser) ==
    IF remaining(parser) < HEADER_LEN
    THEN [outcome |-> "NoMessage", buffer |-> buffer]
    ELSE try_consume_magic(buffer, expected_chain, read_u32_le(parser))

try_consume_message(buffer, expected_chain) ==
    try_consume_header(buffer, expected_chain, ByteBufferParser_new(content(buffer)))

\* ------------------------------------------------------------- messages.rs
VersionMessage_new(addr_recv, me, timestamp) ==
    [kind |-> "Version",
     chain |-> me.chain,
     protocol_version |-> me.protocol_version,
     services |-> me.services,
     timestamp |-> timestamp,
     addr_recv |-> addr_recv,
     sub_ver |-> me.sub_ver,
     start_height |-> me.start_height]

VersionMessage_from_raw_message(raw) ==
    LET parser == ByteBufferParser_new(raw.payload)
        protocol_version == read_i32_le(parser)
    IN
    IF ~protocol_version.ok THEN Err(protocol_version.err) ELSE
    LET services_mask == read_u64_le(protocol_version.parser) IN
    IF ~services_mask.ok THEN Err(services_mask.err) ELSE
    LET services == from_bitmask(services_mask.val)
        timestamp == read_i64_le(services_mask.parser)
    IN
    IF ~timestamp.ok THEN Err(timestamp.err) ELSE
    LET addr_recv == parse_net_addr(timestamp.parser) IN
    IF ~addr_recv.ok THEN Err(addr_recv.err) ELSE
    LET skip1 == skip_bytes(addr_recv.parser, 26) IN
    IF ~skip1.ok THEN Err(skip1.err) ELSE
    LET skip2 == skip_bytes(skip1.parser, 8) IN
    IF ~skip2.ok THEN Err(skip2.err) ELSE
    Ok([kind |-> "Version",
        chain |-> raw.chain,
        protocol_version |-> protocol_version.val,
        services |-> services,
        timestamp |-> timestamp.val,
        addr_recv |-> addr_recv.val[2],
        sub_ver |-> "",
        start_height |-> 1])

\* nonce: the 8 bytes of rng.gen::<u64>().to_le_bytes()
VersionMessage_to_raw_message(m, nonce) ==
    RawMessage_new(m.chain, "Version",
        append_net_addr(i32_to_le_bytes(m.protocol_version)
                        \o mask_to_le_bytes(as_bitmask(m.services))
                        \o to_le_bytes(m.timestamp),
                        m.services, m.addr_recv)
        \o Zeros(26)
        \o nonce
        \o <<0>>
        \o i32_to_le_bytes(m.start_height)
        \o <<0>>)

VerackMessage_new(chain) == [kind |-> "Verack", chain |-> chain]
PingMessage_new(chain) == [kind |-> "Ping", chain |-> chain]
PongMessage_new(chain) == [kind |-> "Pong", chain |-> chain]

\* From<ProtocolMessage> for RawMessage; PingMessage::to_raw_message is
\* unimplemented!() and panics.
RawMessage_from(message, nonce) ==
    CASE message.kind = "Version" -> Ok(VersionMessage_to_raw_message(message, nonce))
      [] message.kind = "Verack" -> Ok(RawMessage_new(message.chain, "Verack", <<>>))
      [] message.kind = "Ping" -> Err("unimplemented")
      [] message.kind = "Pong" -> Ok(RawMessage_new(message.chain, "Pong", nonce))

ProtocolMessage_to_bytes(message, nonce) ==
    LET raw == RawMessage_from(message, nonce)
    IN IF raw.ok THEN Ok(RawMessage_to_bytes(raw.val)) ELSE raw

to_protocol_message(raw) ==
    CASE raw.command = "Version" -> VersionMessage_from_raw_message(raw)
      [] raw.command = "Verack" -> Ok(VerackMessage_new(raw.chain))
      [] raw.command = "Ping" -> Ok(PingMessage_new(raw.chain))
      [] raw.command = "Pong" -> Ok(PongMessage_new(raw.chain))

\* ------------------------------------------------------------ handshake.rs
ConversationAction_nop == [message |-> None, topic_finished |-> FALSE]

HandshakeInitConversationTopic_new(me, remote_addr) ==
    [me |-> me,
     remote_addr |-> remote_addr,
     version_msg_sent |-> FALSE,
     version_ack_msg_received |-> FALSE,
     version_msg_received |-> None]

\* Handler operations return the handler as the call leaves it, next to
\* the call's value.
\* initial_action starting the handshake over with a handler as new
initial_action_restarting(h, timestamp) ==
    [handler |-> [HandshakeInitConversationTopic_new(h.me, h.remote_addr)
                      EXCEPT !.version_msg_sent = TRUE],
     action |-> [message |-> Some(VersionMessage_new(h.remote_addr, h.me, timestamp)),
                 topic_finished |-> FALSE]]

initial_action(h, timestamp) ==
    [handler |-> [h EXCEPT !.version_msg_sent = TRUE],
     action |-> [message |-> Some(VersionMessage_new(h.remote_addr, h.me, timestamp)),
                 topic_finished |-> FALSE]]

VerackBeforeVersionError ==
    "Protocol error: received a 'verack', but no 'version' was sent yet"

\* on_message's Version arm with topic_finished taken from version_msg_sent alone
on_message_Version_ignoring_ack(h, m) ==
    LET h1 == [h EXCEPT !.version_msg_received = Some(m)]
    IN [ok |-> TRUE,
        handler |-> h1,
        action |-> [message |-> Some(VerackMessage_new(h1.me.chain)),
                    topic_finished |-> h1.version_msg_sent]]

\* on_message's Version arm recording the Version without a Verack in reply
on_message_Version_without_reply(h, m) ==
    LET h1 == [h EXCEPT !.version_msg_received = Some(m)]
    IN [ok |-> TRUE,
        handler |-> h1,
        action |-> [message |-> None,
                    topic_finished |-> h1.version_msg_sent /\ h1.version_ack_msg_received]]

\* on_message's Version arm keeping the first Version it recorded
on_message_Version_keeping_first(h, m) ==
    LET h1 == IF h.version_msg_received.some THEN h
              ELSE [h EXCEPT !.version_msg_received = Some(m)]
    IN [ok |-> TRUE,
        handler |-> h1,
        action |-> [message |-> Some(VerackMessage_new(h1.me.chain)),
                    topic_finished |-> h1.version_msg_sent /\ h1.version_ack_msg_received]]

on_message_Version(h, m) ==
    LET h1 == [h EXCEPT !.version_msg_received = Some(m)]
    IN [ok |-> TRUE,
        handler |-> h1,
        action |-> [message |-> Some(VerackMessage_new(h1.me.chain)),
                    topic_finished |-> h1.version_msg_sent /\ h1.version_ack_msg_received]]

\* on_message's Verack arm reporting topic_finished whatever was received
on_message_Verack_always_finished(h) ==
    LET h1 == [h EXCEPT !.version_ack_msg_received = TRUE]
    IN IF ~h1.version_msg_sent
       THEN [ok |-> FALSE,
             handler |-> h1,
             err |-> VerackBeforeVersionError]
       ELSE [ok |-> TRUE,
             handler |-> h1,
             action |-> [message |-> None, topic_finished |-> TRUE]]

\* on_message's Verack arm without the version_msg_sent test
on_message_Verack_unguarded(h) ==
    LET h1 == [h EXCEPT !.version_ack_msg_received = TRUE]
    IN [ok |-> TRUE,
        handler |-> h1,
        action |-> [message |-> None,
                    topic_finished |-> h1.version_msg_received.some]]

on_message_Verack(h) ==
    LET h1 == [h EXCEPT !.version_ack_msg_received = TRUE]
    IN IF ~h1.version_msg_sent
       THEN [ok |-> FALSE,
             handler |-> h1,
             err |-> VerackBeforeVersionError]
       ELSE [ok |-> TRUE,
             handler |-> h1,
             action |-> [message |-> None,
                         topic_finished |-> h1.version_msg_received.some]]

\* on_message with a Ping arm that reports the state of the handshake
on_message_Ping_reporting_finished(h, message) ==
    CASE message.kind = "Version" -> on_message_Version(h, message)
      [] message.kind = "Verack" -> on_message_Verack(h)
      [] message.kind = "Ping" ->
            [ok |-> TRUE,
             handler |-> h,
             action |-> [message |-> Some(PongMessage_new(h.me.chain)),
                         topic_finished |-> h.version_msg_sent /\ h.version_ack_msg_received
                                            /\ h.version_msg_received.some]]
      [] message.kind = "Pong" ->
            [ok |-> TRUE, handler |-> h, action |-> ConversationAction_nop]

on_message(h, message) ==
    CASE message.kind = "Version" -> on_message_Version(h, message)
      [] message.kind = "Verack" -> on_message_Verack(h)
      [] message.kind = "Ping" ->
            [ok |-> TRUE,
             handler |-> h,
             action |-> [message |-> Some(PongMessage_new(h.me.chain)),
                         topic_finished |-> FALSE]]
      [] message.kind = "Pong" ->
            [ok |-> TRUE, handler |-> h, action |-> ConversationAction_nop]

\* outcome() refusing a handler that has no Verack yet
outcome_requiring_ack(h) ==
    IF ~(h.version_msg_received.some /\ h.version_ack_msg_received)
    THEN Err("should have a version message from remote node")
    ELSE LET msg == h.version_msg_received.val
         IN Ok([chain |-> h.me.chain,
                protocol_version |-> msg.protocol_version,
                services |-> msg.services,
                sub_ver |-> msg.sub_ver,
                start_height |-> msg.start_height])

outcome(h) ==
    IF ~h.version_msg_received.some
    THEN Err("should have a version message from remote node")
    ELSE LET msg == h.version_msg_received.val
         IN Ok([chain |-> h.me.chain,
                protocol_version |-> msg.protocol_version,
                services |-> msg.services,
                sub_ver |-> msg.sub_ver,
                start_height |-> msg.start_height])

\* ------------------------------------------------------------------- state
Nodes == {"A", "B"}
Other(n) == IF n = "A" THEN "B" ELSE "A"

VARIABLES
    pc,        \* per node: where its proceed_conversation (or harness) stands
    handler,   \* per node: its HandshakeInitConversationTopic
    buffer,    \* per node: the IOBuffer of the current outer-loop iteration
    inbound,   \* per node: bytes written by the peer and not yet read
    chunks,    \* per node: lengths of the frames still (partly) in inbound
    closed,    \* per node: the peer has closed the stream towards the node
    result,    \* per node: what proceed_conversation returned, once it did
    events,    \* per node: the calls made so far, in order
    errIters,  \* per node: consecutive inner-loop iterations ending in Err
    script,    \* the frames the scripted peer of node A sent, in order
    splits     \* reads so far that ended inside a frame

vars == <<pc, handler, buffer, inbound, chunks, closed, result, events, errIters, script,
          splits>>

NoBuffer == [buffer |-> <<>>, mark |-> 0]

\* --------------------------------------------------- configuration, inputs
\* node-handshake/src/main.rs
BITCOIN_PROTOCOL_VERSION == 70016
LocalDesc ==
    [chain |-> "Regtest",
     protocol_version |-> BITCOIN_PROTOCOL_VERSION,
     services |-> <<"NodeNetwork">>,
     sub_ver |-> "/p2p_showcase.bitmagier:1.0",
     start_height |-> 1]
RemoteAddr == [v6 |-> FALSE, octets |-> <<127, 0, 0, 1>>, port |-> 18445]

\* SystemTime::now() as seconds (i64 digits) and rng output (8 bytes)
Timestamps == {<<0, 0, 0, 0, 101, 83, 241, 0>>}
Nonces == {<<1, 2, 3, 4, 5, 6, 7, 8>>}

\* Frames of a remote peer, laid out as the message tables document them.
WireFrame(magic, tag, len, checksum, payload) ==
    to_le_bytes(magic) \o tag \o to_le_bytes(len) \o checksum \o payload
WireVersionPayload(protocol_version, mask, start_height) ==
    i32_to_le_bytes(protocol_version)
    \o mask_to_le_bytes(mask)
    \o to_le_bytes(<<0, 0, 0, 0, 101, 83, 241, 0>>)
    \o mask_to_le_bytes(mask) \o to_ipv6_mapped(<<127, 0, 0, 1>>) \o u16_to_be_bytes(50000)
    \o Zeros(26)
    \o <<8, 7, 6, 5, 4, 3, 2, 1>>
    \o <<0>>
    \o i32_to_le_bytes(start_height)
    \o <<0>>
GoodFrame(chain, tag, payload) ==
    WireFrame(magic_value(chain), tag, u32_of(Len(payload)), sha256d4(payload), payload)
\* "wtxidrelay", a command bitcoin core sends between version and verack
UnknownTag == <<119, 116, 120, 105, 100, 114, 101, 108, 97, 121, 0, 0>>
\* a tag that is no UTF-8 text
NonUtf8Tag == <<255, 254>> \o Zeros(10)

PeerVersionA == [f |-> "Version", protocol_version |-> 70016, mask |-> {0}, start_height |-> 1]
PeerVersionB == [f |-> "Version", protocol_version |-> 70015, mask |-> {0, 3, 10}, start_height |-> 5]

PeerFrameBytes(fr) ==
    CASE fr.f = "Version" ->
            GoodFrame("Regtest", Command_as_bytes("Version"),
                      WireVersionPayload(fr.protocol_version, fr.mask, fr.start_height))
      [] fr.f = "Verack" -> GoodFrame("Regtest", Command_as_bytes("Verack"), <<>>)
      [] fr.f = "Ping" -> GoodFrame("Regtest", Command_as_bytes("Ping"), <<9, 9, 9, 9, 9, 9, 9, 9>>)
      [] fr.f = "Pong" -> GoodFrame("Regtest", Command_as_bytes("Pong"), <<9, 9, 9, 9, 9, 9, 9, 9>>)
      [] fr.f = "Unknown" -> GoodFrame("Regtest", UnknownTag, <<>>)
      [] fr.f = "BadChecksum" ->
            WireFrame(magic_value("Regtest"), Command_as_bytes("Ping"), u32_of(8),
                      [sha256d4(<<9, 9, 9, 9, 9, 9, 9, 9>>) EXCEPT ![1] = (@ + 1) % 256],
                      <<9, 9, 9, 9, 9, 9, 9, 9>>)
      [] fr.f = "WrongChain" -> GoodFrame("Testnet3", Command_as_bytes("Verack"), <<>>)
      [] fr.f = "ShortVersion" ->
            GoodFrame("Regtest", Command_as_bytes("Version"),
                      SubSeq(WireVersionPayload(70016, {0}, 1), 1, 20))
      [] fr.f = "NonUtf8" -> GoodFrame("Regtest", NonUtf8Tag, <<>>)
      [] fr.f = "Oversize" ->
            WireFrame(magic_value("Regtest"), Command_as_bytes("Ping"),
                      u32_of(BUFFER_SIZE - HEADER_LEN + 1),
                      sha256d4(<<>>), Zeros(BUFFER_SIZE - HEADER_LEN))

RECURSIVE Concat(_)
Concat(ss) == IF ss = <<>> THEN <<>> ELSE Head(ss) \o Concat(Tail(ss))

SeqsUpTo(S, n) == UNION {[1..k -> S] : k \in 0..n}

ScriptFrames ==
    {PeerVersionA, PeerVersionB, [f |-> "Verack"], [f |-> "Ping"], [f |-> "Unknown"]}
Scripts == SeqsUpTo(ScriptFrames, MaxScriptFrames)

\* ------------------------------------------------------------- connection.rs
ConnChain(n) == handler[n].me.chain

Event(e, fields) == [e |-> e] @@ fields
LastEvent(n) == events[n][Len(events[n])]

RECURSIVE ConsumeChunks(_, _)
ConsumeChunks(cs, k) ==
    IF cs = <<>> \/ k = 0 THEN cs
    ELSE IF k >= Head(cs) THEN ConsumeChunks(Tail(cs), k - Head(cs))
    ELSE <<Head(cs) - k>> \o Tail(cs)

\* socket.write_all(bytes): the bytes reach the peer's receive queue
Written(n, bytes) ==
    /\ inbound' = [inbound EXCEPT ![Other(n)] = @ \o bytes]
    /\ chunks' = [chunks EXCEPT ![Other(n)] = IF bytes = <<>> THEN @ ELSE Append(@, Len(bytes))]

Return(n, res, evs) ==
    /\ pc' = [pc EXCEPT ![n] = "done"]
    /\ result' = [result EXCEPT ![n] = Some(res)]
    /\ events' = [events EXCEPT ![n] = @ \o evs]
    /\ buffer' = [buffer EXCEPT ![n] = NoBuffer]

Panic(n) ==
    /\ pc' = [pc EXCEPT ![n] = "panicked"]
    /\ buffer' = [buffer EXCEPT ![n] = NoBuffer]
    /\ UNCHANGED <<result, events>>

\* lines 25-33: initial_action, its message written, its topic_finished tested
StartWrite(n, ia, bytes, evs) ==
    /\ handler' = [handler EXCEPT ![n] = ia.handler]
    /\ IF ~bytes.ok
       THEN Panic(n) /\ UNCHANGED <<inbound, chunks>>
       ELSE /\ Written(n, bytes.val)
            /\ IF ia.action.topic_finished
               THEN Return(n, outcome(ia.handler),
                           evs \o <<Event("outcome", [ok |-> outcome(ia.handler).ok])>>)
               ELSE /\ pc' = [pc EXCEPT ![n] = "read"]
                    /\ events' = [events EXCEPT ![n] = @ \o evs]
                    /\ UNCHANGED <<buffer, result>>

StartAction(n, ia, nonce) ==
    StartWrite(n, ia,
               IF ia.action.message.some
               THEN ProtocolMessage_to_bytes(ia.action.message.val, nonce)
               ELSE Ok(<<>>),
               <<Event("initial_action", [topic_finished |-> ia.action.topic_finished])>>
               \o (IF ia.action.message.some
                   THEN <<Event("write", [kind |-> ia.action.message.val.kind])>>
                   ELSE <<>>))

DriverStart(n) ==
    /\ pc[n] = "start"
    /\ \E timestamp \in Timestamps, nonce \in Nonces :
        StartAction(n, initial_action(handler[n], timestamp), nonce)
    /\ UNCHANGED <<closed, errIters, script>>

\* lines 35-41: a fresh IOBuffer, one socket.read into it of k >= 1 bytes
ReadInto(n, registered) ==
    IF registered.ok
    THEN /\ buffer' = [buffer EXCEPT ![n] = registered.val]
         /\ pc' = [pc EXCEPT ![n] = "drain"]
    ELSE /\ buffer' = [buffer EXCEPT ![n] = NoBuffer]
         /\ pc' = [pc EXCEPT ![n] = "panicked"]

DriverRead(n, k) ==
    /\ pc[n] = "read"
    /\ k \in 1..Min(Len(inbound[n]), Len(expose_writable_part(IOBuffer_default)))
    /\ ReadInto(n, register_added_content(
                       fill_writable_part(IOBuffer_default, SubSeq(inbound[n], 1, k)), k))
    /\ inbound' = [inbound EXCEPT ![n] = SubSeq(@, k + 1, Len(@))]
    /\ chunks' = [chunks EXCEPT ![n] = ConsumeChunks(@, k)]
    /\ errIters' = [errIters EXCEPT ![n] = 0]
    /\ UNCHANGED <<handler, closed, result, events, script>>

\* end of stream leaving the loop and falling through to handler.outcome()
DriverReadEof_break(n) ==
    /\ pc[n] = "read"
    /\ inbound[n] = <<>>
    /\ closed[n]
    /\ Return(n, outcome(handler[n]),
              <<Event("outcome", [ok |-> outcome(handler[n]).ok])>>)
    /\ UNCHANGED <<handler, inbound, chunks, closed, errIters, script>>

\* lines 37-39: socket.read returns 0
DriverReadEof(n) ==
    /\ pc[n] = "read"
    /\ inbound[n] = <<>>
    /\ closed[n]
    /\ Return(n, Err("Remote node hung up"), <<>>)
    /\ UNCHANGED <<handler, inbound, chunks, closed, errIters, script>>

\* lines 43-68: one iteration of the inner loop
DispatchEvent(message, handler_response) ==
    Event("on_message",
          [message |-> message,
           ok |-> handler_response.ok,
           err |-> IF handler_response.ok THEN "none" ELSE handler_response.err,
           topic_finished |-> handler_response.ok /\ handler_response.action.topic_finished,
           reply |-> IF handler_response.ok /\ handler_response.action.message.some
                     THEN handler_response.action.message.val.kind
                     ELSE "none"])

\* the reply kept back instead of written before the loop goes on
DrainReply_deferred(n, shifted, h, action, bytes, evs) ==
    IF ~bytes.ok
    THEN /\ Panic(n)
         /\ UNCHANGED <<inbound, chunks>>
    ELSE /\ UNCHANGED <<inbound, chunks>>
         /\ IF action.topic_finished
            THEN Return(n, outcome(h), evs \o <<Event("outcome", [ok |-> outcome(h).ok])>>)
            ELSE /\ buffer' = [buffer EXCEPT ![n] = shifted]
                 /\ events' = [events EXCEPT ![n] = @ \o evs]
                 /\ UNCHANGED <<pc, result>>

\* the inner loop going on after an action with topic_finished
DrainReply_ignoring_finished(n, shifted, h, action, bytes, evs) ==
    IF ~bytes.ok
    THEN /\ Panic(n)
         /\ UNCHANGED <<inbound, chunks>>
    ELSE /\ Written(n, bytes.val)
         /\ buffer' = [buffer EXCEPT ![n] = shifted]
         /\ events' = [events EXCEPT ![n] = @ \o evs]
         /\ UNCHANGED <<pc, result>>

\* topic_finished tested before the reply is written
DrainReply_finished_first(n, shifted, h, action, bytes, evs) ==
    IF ~bytes.ok
    THEN /\ Panic(n)
         /\ UNCHANGED <<inbound, chunks>>
    ELSE IF action.topic_finished
    THEN /\ Return(n, outcome(h),
                   <<Head(evs)>> \o <<Event("outcome", [ok |-> outcome(h).ok])>>)
         /\ UNCHANGED <<inbound, chunks>>
    ELSE /\ Written(n, bytes.val)
         /\ buffer' = [buffer EXCEPT ![n] = shifted]
         /\ events' = [events EXCEPT ![n] = @ \o evs]
         /\ UNCHANGED <<pc, result>>

\* lines 51-57: the reply written, topic_finished tested
DrainReply(n, shifted, h, action, bytes, evs) ==
    IF ~bytes.ok
    THEN /\ Panic(n)
         /\ UNCHANGED <<inbound, chunks>>
    ELSE /\ Written(n, bytes.val)
         /\ IF action.topic_finished
            THEN Return(n, outcome(h), evs \o <<Event("outcome", [ok |-> outcome(h).ok])>>)
            ELSE /\ buffer' = [buffer EXCEPT ![n] = shifted]
                 /\ events' = [events EXCEPT ![n] = @ \o evs]
                 /\ UNCHANGED <<pc, result>>

\* line 50: handler.on_message(received_message)?
DrainDispatch(n, shifted, message, handler_response) ==
    /\ handler' = [handler EXCEPT ![n] = handler_response.handler]
    /\ UNCHANGED errIters
    /\ IF ~handler_response.ok
       THEN /\ Return(n, Err(handler_response.err),
                      <<DispatchEvent(message, handler_response)>>)
            /\ UNCHANGED <<inbound, chunks>>
       ELSE \E nonce \in Nonces :
                DrainReply(n, shifted, handler_response.handler, handler_response.action,
                           IF handler_response.action.message.some
                           THEN ProtocolMessage_to_bytes(handler_response.action.message.val,
                                                         nonce)
                           ELSE Ok(<<>>),
                           <<DispatchEvent(message, handler_response)>>
                           \o (IF handler_response.action.message.some
                               THEN <<Event("write",
                                            [kind |-> handler_response.action.message.val.kind])>>
                               ELSE <<>>))

\* line 47: raw_message.to_protocol_message()?
DrainMessage(n, shifted, received_message) ==
    IF ~received_message.ok
    THEN /\ Return(n, Err(received_message.err), <<>>)
         /\ UNCHANGED <<handler, inbound, chunks, errIters>>
    ELSE DrainDispatch(n, shifted, received_message.val,
                       on_message(handler[n], received_message.val))

\* NoMessage leaving the outer loop instead of the inner one
DrainOutcome_NoMessage_leaving_outer(n, parsed) ==
    CASE parsed.outcome = "Message" ->
            DrainMessage(n, parsed.buffer, to_protocol_message(parsed.raw))
      [] parsed.outcome = "SkippedMessage" ->
            /\ buffer' = [buffer EXCEPT ![n] = parsed.buffer]
            /\ UNCHANGED <<pc, handler, inbound, chunks, result, events, errIters>>
      [] parsed.outcome = "NoMessage" ->
            /\ Return(n, outcome(handler[n]),
                      <<Event("outcome", [ok |-> outcome(handler[n]).ok])>>)
            /\ UNCHANGED <<handler, inbound, chunks, errIters>>
      [] parsed.outcome = "Err" ->
            /\ errIters' = [errIters EXCEPT ![n] = Min(@ + 1, MaxErrIters)]
            /\ buffer' = [buffer EXCEPT ![n] = parsed.buffer]
            /\ UNCHANGED <<pc, handler, inbound, chunks, result, events>>
      [] parsed.outcome = "Panic" ->
            /\ Panic(n)
            /\ UNCHANGED <<handler, inbound, chunks, errIters>>

DrainOutcome(n, parsed) ==
    CASE parsed.outcome = "Message" ->
            DrainMessage(n, parsed.buffer, to_protocol_message(parsed.raw))
      [] parsed.outcome = "SkippedMessage" ->
            /\ buffer' = [buffer EXCEPT ![n] = parsed.buffer]
            /\ UNCHANGED <<pc, handler, inbound, chunks, result, events, errIters>>
      [] parsed.outcome = "NoMessage" ->
            /\ pc' = [pc EXCEPT ![n] = "read"]
            /\ buffer' = [buffer EXCEPT ![n] = NoBuffer]
            /\ UNCHANGED <<handler, inbound, chunks, result, events, errIters>>
      [] parsed.outcome = "Err" ->
            /\ errIters' = [errIters EXCEPT ![n] = Min(@ + 1, MaxErrIters)]
            /\ buffer' = [buffer EXCEPT ![n] = parsed.buffer]
            /\ UNCHANGED <<pc, handler, inbound, chunks, result, events>>
      [] parsed.outcome = "Panic" ->
            /\ Panic(n)
            /\ UNCHANGED <<handler, inbound, chunks, errIters>>

DriverDrain(n) ==
    /\ pc[n] = "drain"
    /\ DrainOutcome(n, try_consume_message(buffer[n], ConnChain(n)))
    /\ UNCHANGED <<closed, script>>

\* The peer closes its side; the node can tell only once its queue is empty.
PeerClose(n) ==
    /\ pc[n] = "read"
    /\ inbound[n] = <<>>
    /\ ~closed[n]
    /\ closed' = [closed EXCEPT ![n] = TRUE]
    /\ UNCHANGED <<pc, handler, buffer, inbound, chunks, result, events, errIters, script>>

\* ------------------------------------------------ one node, scripted peer
\* Read sizes the transport may deliver: everything queued, the rest of the
\* frame at the head of the queue, or (a split read) one byte or a bare header.
WholeSizes(n) ==
    {Len(inbound[n])} \cup (IF chunks[n] = <<>> THEN {} ELSE {Head(chunks[n])})
ReadSizes(n) ==
    WholeSizes(n) \cup (IF splits < MaxSplitReads THEN {1, HEADER_LEN} ELSE {})

InitScripted(scripts) ==
    /\ script \in scripts
    /\ pc = [n \in Nodes |-> IF n = "A" THEN "start" ELSE "peer"]
    /\ handler = [n \in Nodes |-> HandshakeInitConversationTopic_new(LocalDesc, RemoteAddr)]
    /\ buffer = [n \in Nodes |-> NoBuffer]
    /\ inbound = [n \in Nodes |->
                    IF n = "A" THEN Concat([i \in 1..Len(script) |-> PeerFrameBytes(script[i])])
                    ELSE <<>>]
    /\ chunks = [n \in Nodes |->
                    IF n = "A" THEN [i \in 1..Len(script) |-> Len(PeerFrameBytes(script[i]))]
                    ELSE <<>>]
    /\ closed = [n \in Nodes |-> FALSE]
    /\ result = [n \in Nodes |-> None]
    /\ events = [n \in Nodes |-> <<>>]
    /\ errIters = [n \in Nodes |-> 0]
    /\ splits = 0

Init == InitScripted(Scripts)

ScriptedRead ==
    \E k \in ReadSizes("A") :
        /\ DriverRead("A", k)
        /\ splits' = IF k \in WholeSizes("A") THEN splits ELSE splits + 1

Next ==
    \/ DriverStart("A") /\ UNCHANGED splits
    \/ ScriptedRead
    \/ DriverReadEof("A") /\ UNCHANGED splits
    \/ DriverDrain("A") /\ UNCHANGED splits
    \/ PeerClose("A") /\ UNCHANGED splits

Spec == Init /\ [][Next]_vars

\* The same node and peer over a transport that never splits a frame.
WholeFrameScriptedRead ==
    \E k \in WholeSizes("A") : DriverRead("A", k) /\ UNCHANGED splits

NextWholeFrames ==
    \/ DriverStart("A") /\ UNCHANGED splits
    \/ WholeFrameScriptedRead
    \/ DriverReadEof("A") /\ UNCHANGED splits
    \/ DriverDrain("A") /\ UNCHANGED splits
    \/ PeerClose("A") /\ UNCHANGED splits

SpecWholeFrames == Init /\ [][NextWholeFrames]_vars

\* A peer whose stream also holds frames the decoder cannot accept: a frame
\* with a wrong checksum, a frame of another chain, and a header announcing
\* one payload byte more than the buffer has room for, followed by as many
\* payload bytes as one read can take; and a Version frame, checksum-correct,
\* whose payload ends inside the fields VersionMessage::from_raw_message reads.
FaultFrames ==
    {[f |-> "BadChecksum"], [f |-> "WrongChain"], [f |-> "Oversize"], [f |-> "ShortVersion"]}
FaultyScripts == SeqsUpTo(ScriptFrames \cup FaultFrames, MaxScriptFrames)
InitFaultyPeer == InitScripted(FaultyScripts)

SpecFaultyPeer == InitFaultyPeer /\ [][NextWholeFrames]_vars

\* A peer sending frames the decoder accepts and frames it does not, a frame
\* whose command tag is no UTF-8 text among them, over a transport that may
\* end a read anywhere.
AnyFrames ==
    {PeerVersionB, [f |-> "Verack"], [f |-> "Unknown"], [f |-> "BadChecksum"],
     [f |-> "Oversize"], [f |-> "NonUtf8"]}
InitAnyStream == InitScripted(SeqsUpTo(AnyFrames, MaxScriptFrames))

SpecAnyStream == InitAnyStream /\ [][Next]_vars

\* A transport whose write_all can fail: the `?` of lines 29 and 53 returns
\* the io error, after initial_action or on_message has been called.
WriteError == "write_all failed"

DriverStartWriteFails(n) ==
    /\ pc[n] = "start"
    /\ \E timestamp \in Timestamps :
        /\ initial_action(handler[n], timestamp).action.message.some
        /\ handler' = [handler EXCEPT ![n] = initial_action(handler[n], timestamp).handler]
        /\ Return(n, Err(WriteError),
                  <<Event("initial_action",
                          [topic_finished |->
                              initial_action(handler[n], timestamp).action.topic_finished])>>)
    /\ UNCHANGED <<inbound, chunks, closed, errIters, script>>

DrainWriteFails(n, message, handler_response) ==
    /\ handler_response.ok
    /\ handler_response.action.message.some
    /\ handler' = [handler EXCEPT ![n] = handler_response.handler]
    /\ Return(n, Err(WriteError), <<DispatchEvent(message, handler_response)>>)

DriverDrainWriteFails(n) ==
    /\ pc[n] = "drain"
    /\ try_consume_message(buffer[n], ConnChain(n)).outcome = "Message"
    /\ to_protocol_message(try_consume_message(buffer[n], ConnChain(n)).raw).ok
    /\ DrainWriteFails(n,
           to_protocol_message(try_consume_message(buffer[n], ConnChain(n)).raw).val,
           on_message(handler[n],
                      to_protocol_message(try_consume_message(buffer[n], ConnChain(n)).raw).val))
    /\ UNCHANGED <<inbound, chunks, closed, errIters, script>>

NextFailingWrites ==
    \/ Next
    \/ DriverStartWriteFails("A") /\ UNCHANGED splits
    \/ DriverDrainWriteFails("A") /\ UNCHANGED splits

SpecFailingWrites == Init /\ [][NextFailingWrites]_vars

\* ------------------------------------------- the driver of src/src/peer
\* The older driver differs in its end-of-stream arm: `0 => break`, which
\* leaves the outer loop and falls through to handler.outcome().
LegacyReadEof(n) ==
    /\ pc[n] = "read"
    /\ inbound[n] = <<>>
    /\ closed[n]
    /\ Return(n, outcome(handler[n]),
              <<Event("outcome", [ok |-> outcome(handler[n]).ok])>>)
    /\ UNCHANGED <<handler, inbound, chunks, closed, errIters, script>>

NextLegacy ==
    \/ DriverStart("A") /\ UNCHANGED splits
    \/ ScriptedRead
    \/ LegacyReadEof("A") /\ UNCHANGED splits
    \/ DriverDrain("A") /\ UNCHANGED splits
    \/ PeerClose("A") /\ UNCHANGED splits

SpecLegacy == Init /\ [][NextLegacy]_vars

\* ------------------------------------------------- two nodes, one stream
\* Both ends run proceed_conversation; every read delivers whole frames.
Descs ==
    {[LocalDesc EXCEPT !.protocol_version = v, !.start_height = h] :
        v \in {BITCOIN_PROTOCOL_VERSION, 70015}, h \in {1, 5}}

RECURSIVE PrefixSums(_, _)
PrefixSums(cs, acc) ==
    IF cs = <<>> THEN {}
    ELSE {acc + Head(cs)} \cup PrefixSums(Tail(cs), acc + Head(cs))

InitTwoNodes ==
    /\ script = <<>>
    /\ pc = [n \in Nodes |-> "start"]
    /\ \E da \in Descs, db \in Descs :
        handler = [n \in Nodes |->
                     HandshakeInitConversationTopic_new(IF n = "A" THEN da ELSE db, RemoteAddr)]
    /\ buffer = [n \in Nodes |-> NoBuffer]
    /\ inbound = [n \in Nodes |-> <<>>]
    /\ chunks = [n \in Nodes |-> <<>>]
    /\ closed = [n \in Nodes |-> FALSE]
    /\ result = [n \in Nodes |-> None]
    /\ events = [n \in Nodes |-> <<>>]
    /\ errIters = [n \in Nodes |-> 0]
    /\ splits = 0

WholeFrameRead(n) ==
    \E k \in PrefixSums(chunks[n], 0) : DriverRead(n, k)

NodeStep(n) ==
    \/ DriverStart(n) /\ UNCHANGED splits
    \/ WholeFrameRead(n) /\ UNCHANGED splits
    \/ DriverDrain(n) /\ UNCHANGED splits

NextTwoNodes == \E n \in Nodes : NodeStep(n)

SpecTwoNodes ==
    InitTwoNodes /\ [][NextTwoNodes]_vars /\ \A n \in Nodes : WF_vars(NodeStep(n))

\* ---------------------------------------------------------- handler harness
\* A test that owns a handler and calls it directly.
DecodedFrame(fr) ==
    LET b == register_added_content(
                 fill_writable_part(IOBuffer_default, PeerFrameBytes(fr)),
                 Len(PeerFrameBytes(fr))).val
    IN to_protocol_message(try_consume_message(b, "Regtest").raw).val

HarnessMessages ==
    {DecodedFrame(fr) : fr \in {PeerVersionA, PeerVersionB, [f |-> "Verack"],
                                [f |-> "Ping"], [f |-> "Pong"]}}

InitHandler ==
    /\ script = <<>>
    /\ pc = [n \in Nodes |-> IF n = "A" THEN "harness" ELSE "peer"]
    /\ handler = [n \in Nodes |-> HandshakeInitConversationTopic_new(LocalDesc, RemoteAddr)]
    /\ buffer = [n \in Nodes |-> NoBuffer]
    /\ inbound = [n \in Nodes |-> <<>>]
    /\ chunks = [n \in Nodes |-> <<>>]
    /\ closed = [n \in Nodes |-> FALSE]
    /\ result = [n \in Nodes |-> None]
    /\ events = [n \in Nodes |-> <<>>]
    /\ errIters = [n \in Nodes |-> 0]
    /\ splits = 0

HarnessInitialAction ==
    /\ pc["A"] = "harness"
    /\ events["A"] = <<>>
    /\ \E timestamp \in Timestamps :
        LET ia == initial_action(handler["A"], timestamp)
        IN /\ handler' = [handler EXCEPT !["A"] = ia.handler]
           /\ events' = [events EXCEPT !["A"] =
                  Append(@, Event("initial_action",
                                  [topic_finished |-> ia.action.topic_finished]))]
    /\ UNCHANGED <<pc, buffer, inbound, chunks, closed, result, errIters, script, splits>>

HarnessOnMessage ==
    /\ pc["A"] = "harness"
    /\ Len(events["A"]) < MaxCalls
    /\ \E message \in HarnessMessages :
        LET r == on_message(handler["A"], message)
        IN /\ handler' = [handler EXCEPT !["A"] = r.handler]
           /\ events' = [events EXCEPT !["A"] =
                  Append(@, Event("on_message",
                                  [message |-> message,
                                   ok |-> r.ok,
                                   err |-> IF r.ok THEN "none" ELSE r.err,
                                   topic_finished |-> r.ok /\ r.action.topic_finished,
                                   reply |-> IF r.ok /\ r.action.message.some
                                             THEN r.action.message.val.kind ELSE "none"]))]
    /\ UNCHANGED <<pc, buffer, inbound, chunks, closed, result, errIters, script, splits>>

HarnessOutcome ==
    /\ pc["A"] = "harness"
    /\ LET res == outcome(handler["A"])
       IN /\ result' = [result EXCEPT !["A"] = Some(res)]
          /\ events' = [events EXCEPT !["A"] = Append(@, Event("outcome", [ok |-> res.ok]))]
    /\ pc' = [pc EXCEPT !["A"] = "consumed"]
    /\ UNCHANGED <<handler, buffer, inbound, chunks, closed, errIters, script, splits>>

NextHandler == HarnessInitialAction \/ HarnessOnMessage \/ HarnessOutcome

SpecHandler == InitHandler /\ [][NextHandler]_vars

\* The handler called in any order: initial_action is a method like the
\* others and may come after on_message calls, or more than once.
HarnessInitialActionAnytime ==
    /\ pc["A"] = "harness"
    /\ events["A"] # <<>>
    /\ Len(events["A"]) < MaxCalls
    /\ \E timestamp \in Timestamps :
        LET ia == initial_action(handler["A"], timestamp)
        IN /\ handler' = [handler EXCEPT !["A"] = ia.handler]
           /\ events' = [events EXCEPT !["A"] =
                  Append(@, Event("initial_action",
                                  [topic_finished |-> ia.action.topic_finished]))]
    /\ UNCHANGED <<pc, buffer, inbound, chunks, closed, result, errIters, script, splits>>

NextHandlerAnyOrder == NextHandler \/ HarnessInitialActionAnytime

SpecHandlerAnyOrder == InitHandler /\ [][NextHandlerAnyOrder]_vars

\* The handler harness and the scripted driver side by side.
SpecHandlerAndDriver == (Init \/ InitHandler) /\ [][Next \/ NextHandler]_vars

\* ------------------------------------------------------------ codec harness
\* A test that owns an IOBuffer, loads frames into it and calls
\* try_consume_message until it reports NoMessage or fails; when the last
\* frame was loaded only in part, the test then appends the rest and goes on.
BogusMagic == <<222, 173, 190, 239>>
\* "version" padded with spaces instead of NUL
UnpaddedTag == <<118, 101, 114, 115, 105, 111, 110, 32, 32, 32, 32, 32>>

CodecMagic(fr) == IF fr.magic = "Bogus" THEN BogusMagic ELSE magic_value(fr.magic)
CodecTag(fr) ==
    CASE fr.tag = "Unknown" -> UnknownTag
      [] fr.tag = "NonUtf8" -> NonUtf8Tag
      [] fr.tag = "Unpadded" -> UnpaddedTag
      [] OTHER -> Command_as_bytes(fr.tag)
CodecPayload(fr) ==
    CASE fr.tag = "Version" -> WireVersionPayload(70015, {0}, 5)
      [] fr.tag = "Ping" -> <<9, 9, 9, 9, 9, 9, 9, 9>>
      [] OTHER -> <<>>
CodecChecksum(fr) ==
    IF fr.sum = "good" THEN sha256d4(CodecPayload(fr))
    ELSE [sha256d4(CodecPayload(fr)) EXCEPT ![1] = (@ + 1) % 256]
CodecFrameBytes(fr) ==
    WireFrame(CodecMagic(fr), CodecTag(fr), u32_of(Len(CodecPayload(fr))),
              CodecChecksum(fr), CodecPayload(fr))
CodecFrame(magic, tag, sum) == [magic |-> magic, tag |-> tag, sum |-> sum, cut |-> 0]
CodecFrames ==
    {CodecFrame("Regtest", "Version", "good"),
     CodecFrame("Regtest", "Verack", "good"),
     CodecFrame("Regtest", "Unknown", "good"),
     CodecFrame("Regtest", "Ping", "bad"),
     CodecFrame("Regtest", "Unknown", "bad"),
     CodecFrame("Regtest", "Unpadded", "good"),
     CodecFrame("Regtest", "NonUtf8", "good"),
     CodecFrame("Testnet3", "Version", "good"),
     CodecFrame("Testnet3", "Verack", "good"),
     CodecFrame("Testnet3", "NonUtf8", "bad"),
     CodecFrame("Bogus", "Version", "good"),
     CodecFrame("Bogus", "Verack", "good"),
     CodecFrame("Bogus", "Unknown", "bad")}
\* every frame's bytes, laid out once
CodecBytes == [fr \in CodecFrames |-> CodecFrameBytes(fr)]
\* the part of the frame that is in the buffer from the start
CodecLoaded(fr) ==
    IF fr.cut = 0 THEN CodecBytes[fr]
    ELSE SubSeq(CodecBytes[[fr EXCEPT !.cut = 0]], 1, fr.cut)
CodecRest(fr) ==
    IF fr.cut = 0 THEN <<>>
    ELSE SubSeq(CodecBytes[[fr EXCEPT !.cut = 0]], fr.cut + 1,
                Len(CodecBytes[[fr EXCEPT !.cut = 0]]))

\* a frame cut inside its magic, after its header, inside its payload
PartialFrames ==
    {[fr EXCEPT !.cut = c] :
        fr \in {f \in CodecFrames : f.tag = "Version"}, c \in {1, HEADER_LEN, HEADER_LEN + 16}}
CodecScripts ==
    {whole \o part :
        whole \in SeqsUpTo(CodecFrames, MaxCodecFrames),
        part \in {<<>>} \cup {<<fr>> : fr \in PartialFrames}}

InitCodec ==
    /\ script \in CodecScripts
    /\ pc = [n \in Nodes |-> IF n = "A" THEN "codec" ELSE "peer"]
    /\ \E i \in DOMAIN Chains :
        handler = [n \in Nodes |->
                     HandshakeInitConversationTopic_new([LocalDesc EXCEPT !.chain = Chains[i]],
                                                        RemoteAddr)]
    /\ buffer = [n \in Nodes |->
                   IF n = "A"
                   THEN register_added_content(
                            fill_writable_part(
                                IOBuffer_default,
                                Concat([i \in 1..Len(script) |-> CodecLoaded(script[i])])),
                            Len(Concat([i \in 1..Len(script) |-> CodecLoaded(script[i])]))).val
                   ELSE NoBuffer]
    /\ inbound = [n \in Nodes |->
                    IF n = "A" /\ script # <<>> THEN CodecRest(script[Len(script)]) ELSE <<>>]
    /\ chunks = [n \in Nodes |-> <<>>]
    /\ closed = [n \in Nodes |-> FALSE]
    /\ result = [n \in Nodes |-> None]
    /\ events = [n \in Nodes |-> <<>>]
    /\ errIters = [n \in Nodes |-> 0]
    /\ splits = 0

CodecRecord(parsed) ==
    /\ buffer' = [buffer EXCEPT !["A"] = parsed.buffer]
    /\ events' = [events EXCEPT !["A"] =
           Append(@, Event("try_consume_message",
                           [outcome |-> parsed.outcome,
                            raw |-> IF parsed.outcome = "Message"
                                    THEN Some(parsed.raw) ELSE None]))]

CodecConsume ==
    /\ pc["A"] = "codec"
    /\ IF events["A"] = <<>> \/ LastEvent("A").e = "feed" THEN TRUE
       ELSE LastEvent("A").outcome \in {"Message", "SkippedMessage"}
    /\ CodecRecord(try_consume_message(buffer["A"], ConnChain("A")))
    /\ UNCHANGED <<pc, handler, inbound, chunks, closed, result, errIters, script, splits>>

CodecFeed ==
    /\ pc["A"] = "codec"
    /\ events["A"] # <<>>
    /\ LastEvent("A").e = "try_consume_message"
    /\ LastEvent("A").outcome = "NoMessage"
    /\ inbound["A"] # <<>>
    /\ Len(inbound["A"]) <= Len(expose_writable_part(buffer["A"]))
    /\ buffer' = [buffer EXCEPT !["A"] =
           register_added_content(fill_writable_part(@, inbound["A"]),
                                  Len(inbound["A"])).val]
    /\ inbound' = [inbound EXCEPT !["A"] = <<>>]
    /\ events' = [events EXCEPT !["A"] = Append(@, Event("feed", [len |-> Len(inbound["A"])]))]
    /\ UNCHANGED <<pc, handler, chunks, closed, result, errIters, script, splits>>

NextCodec == CodecConsume \/ CodecFeed

SpecCodec == InitCodec /\ [][NextCodec]_vars

\* --------------------------------------------------------- frame round trip
\* A test that encodes one RawMessage with to_bytes, writes the bytes into an
\* empty IOBuffer and calls try_consume_message with the message's chain.
\* Payloads: all of one byte value, or counting up from 0.
\* The IOBuffer alone: register_added_content after a write into the
\* writable part, shift_left and try_consume_message in any order, with sizes
\* that keep and sizes that break the assertions.
Ramp(n) == [i \in 1..n |-> i % 251]
BufferStreams ==
    {CodecBytes[CodecFrame("Regtest", "Version", "good")]
         \o CodecBytes[CodecFrame("Regtest", "Verack", "good")]
         \o CodecBytes[CodecFrame("Regtest", "Unknown", "good")]
         \o Ramp(BUFFER_SIZE),
     Ramp(BUFFER_SIZE + HEADER_LEN)}
RegisterSizes ==
    {0, 1, HEADER_LEN,
     Len(CodecBytes[CodecFrame("Regtest", "Version", "good")]) + HEADER_LEN, BUFFER_SIZE}
ShiftSizes(b) == {0, 1, HEADER_LEN, b.mark, b.mark + 1}

InitBuffer ==
    /\ script = <<>>
    /\ pc = [n \in Nodes |-> IF n = "A" THEN "buffer" ELSE "peer"]
    /\ handler = [n \in Nodes |-> HandshakeInitConversationTopic_new(LocalDesc, RemoteAddr)]
    /\ buffer = [n \in Nodes |-> IF n = "A" THEN IOBuffer_default ELSE NoBuffer]
    /\ \E stream \in BufferStreams :
        inbound = [n \in Nodes |-> IF n = "A" THEN stream ELSE <<>>]
    /\ chunks = [n \in Nodes |-> <<>>]
    /\ closed = [n \in Nodes |-> FALSE]
    /\ result = [n \in Nodes |-> None]
    /\ events = [n \in Nodes |-> <<>>]
    /\ errIters = [n \in Nodes |-> 0]
    /\ splits = 0

\* the call's result stored, or the panic of a failed assertion
BufferCalled(call, size, res) ==
    /\ IF res.ok
       THEN buffer' = [buffer EXCEPT !["A"] = res.val] /\ UNCHANGED pc
       ELSE pc' = [pc EXCEPT !["A"] = "panicked"] /\ UNCHANGED buffer
    /\ events' = [events EXCEPT !["A"] = Append(@, Event(call, [size |-> size, ok |-> res.ok]))]

BufferRegister ==
    /\ pc["A"] = "buffer"
    /\ Len(events["A"]) < MaxBufferOps
    /\ \E size \in RegisterSizes :
        /\ size <= Len(inbound["A"])
        /\ BufferCalled("register_added_content", size,
               register_added_content(
                   fill_writable_part(
                       buffer["A"],
                       SubSeq(inbound["A"], 1,
                              Min(size, Len(expose_writable_part(buffer["A"]))))),
                   size))
        /\ inbound' = [inbound EXCEPT !["A"] =
               SubSeq(@, Min(size, Len(expose_writable_part(buffer["A"]))) + 1, Len(@))]
    /\ UNCHANGED <<handler, chunks, closed, result, errIters, script, splits>>

BufferShift ==
    /\ pc["A"] = "buffer"
    /\ Len(events["A"]) < MaxBufferOps
    /\ \E size \in ShiftSizes(buffer["A"]) :
        BufferCalled("shift_left", size, shift_left(buffer["A"], size))
    /\ UNCHANGED <<handler, inbound, chunks, closed, result, errIters, script, splits>>

BufferConsume ==
    /\ pc["A"] = "buffer"
    /\ Len(events["A"]) < MaxBufferOps
    /\ CodecRecord(try_consume_message(buffer["A"], ConnChain("A")))
    /\ UNCHANGED <<pc, handler, inbound, chunks, closed, result, errIters, script, splits>>

NextBuffer == BufferRegister \/ BufferShift \/ BufferConsume

SpecBuffer == InitBuffer /\ [][NextBuffer]_vars

\* The ByteBufferParser alone: one parser over a slice, its read and skip
\* methods called in any order with sizes up to one more than what remains.
\* The variable buffer holds the parser (its slice and its pos).
ParserSlices == {Ramp(n) : n \in {0, 3, 8, 30}}
ParserSizes(parser) == {0, 1, 4, remaining(parser), remaining(parser) + 1}
ParserFixedReads == {"read_u32_le", "read_i32_le", "read_u64_le", "read_i64_le", "read_u16_be"}
ParserFixedSize(call) ==
    CASE call \in {"read_u32_le", "read_i32_le"} -> 4
      [] call \in {"read_u64_le", "read_i64_le"} -> 8
      [] call = "read_u16_be" -> 2
ParserFixedRead(call, parser) ==
    CASE call = "read_u32_le" -> read_u32_le(parser)
      [] call = "read_i32_le" -> read_i32_le(parser)
      [] call = "read_u64_le" -> read_u64_le(parser)
      [] call = "read_i64_le" -> read_i64_le(parser)
      [] call = "read_u16_be" -> read_u16_be(parser)

InitParser ==
    /\ script = <<>>
    /\ pc = [n \in Nodes |-> IF n = "A" THEN "parser" ELSE "peer"]
    /\ handler = [n \in Nodes |-> HandshakeInitConversationTopic_new(LocalDesc, RemoteAddr)]
    /\ \E slice \in ParserSlices :
        buffer = [n \in Nodes |-> ByteBufferParser_new(IF n = "A" THEN slice ELSE <<>>)]
    /\ inbound = [n \in Nodes |-> <<>>]
    /\ chunks = [n \in Nodes |-> <<>>]
    /\ closed = [n \in Nodes |-> FALSE]
    /\ result = [n \in Nodes |-> None]
    /\ events = [n \in Nodes |-> <<>>]
    /\ errIters = [n \in Nodes |-> 0]
    /\ splits = 0

\* the parser as the call leaves it, and what the call returned
ParserCalled(call, size, r, bytes) ==
    /\ buffer' = [buffer EXCEPT !["A"] = r.parser]
    /\ events' = [events EXCEPT !["A"] =
           Append(@, Event(call, [size |-> size,
                                  ok |-> r.ok,
                                  err |-> IF r.ok THEN "none" ELSE r.err,
                                  bytes |-> bytes]))]
    /\ UNCHANGED <<pc, handler, inbound, chunks, closed, result, errIters, script, splits>>

ParserReadCalled(size, r) ==
    ParserCalled("read", size, r, IF r.ok THEN r.val ELSE <<>>)

ParserSkip ==
    /\ pc["A"] = "parser"
    /\ Len(events["A"]) < MaxParserCalls
    /\ \E count \in ParserSizes(buffer["A"]) :
        ParserCalled("skip_bytes", count, skip_bytes(buffer["A"], count), <<>>)

ParserRead ==
    /\ pc["A"] = "parser"
    /\ Len(events["A"]) < MaxParserCalls
    /\ \E size \in ParserSizes(buffer["A"]) :
        ParserReadCalled(size, read(buffer["A"], size))

ParserReadFixed ==
    /\ pc["A"] = "parser"
    /\ Len(events["A"]) < MaxParserCalls
    /\ \E call \in ParserFixedReads :
        ParserCalled(call, ParserFixedSize(call), ParserFixedRead(call, buffer["A"]), <<>>)

ParserParseNetAddr ==
    /\ pc["A"] = "parser"
    /\ Len(events["A"]) < MaxParserCalls
    /\ ParserCalled("parse_net_addr", 8 + 16 + 2, parse_net_addr(buffer["A"]), <<>>)

NextParser == ParserSkip \/ ParserRead \/ ParserReadFixed \/ ParserParseNetAddr

SpecParser == InitParser /\ [][NextParser]_vars

\* NodeServiceSet round trip: the sets holding each NodeService at most once,
\* and u64 masks with known and unknown bits set
NodeServiceSets == {<<>>} \cup {<<NodeServices[i]>> : i \in DOMAIN NodeServices}
ServiceMasks == SUBSET {0, 1, 31, 63}

InitServices ==
    /\ \E s \in NodeServiceSets, m \in ServiceMasks :
        script = <<[services |-> s, mask |-> m]>>
    /\ pc = [n \in Nodes |-> IF n = "A" THEN "services" ELSE "peer"]
    /\ handler = [n \in Nodes |-> HandshakeInitConversationTopic_new(LocalDesc, RemoteAddr)]
    /\ buffer = [n \in Nodes |-> NoBuffer]
    /\ inbound = [n \in Nodes |-> <<>>]
    /\ chunks = [n \in Nodes |-> <<>>]
    /\ closed = [n \in Nodes |-> FALSE]
    /\ result = [n \in Nodes |-> None]
    /\ events = [n \in Nodes |-> <<>>]
    /\ errIters = [n \in Nodes |-> 0]
    /\ splits = 0

ServicesAsBitmask ==
    /\ pc["A"] = "services"
    /\ events["A"] = <<>>
    /\ events' = [events EXCEPT !["A"] =
           Append(@, Event("as_bitmask", [services |-> script[1].services,
                                          mask |-> as_bitmask(script[1].services)]))]
    /\ UNCHANGED <<pc, handler, buffer, inbound, chunks, closed, result, errIters, script,
                   splits>>

ServicesFromBitmask ==
    /\ pc["A"] = "services"
    /\ \E mask \in {IF events["A"] = <<>> THEN script[1].mask ELSE LastEvent("A").mask} :
        /\ events' = [events EXCEPT !["A"] =
               Append(@, Event("from_bitmask", [services |-> from_bitmask(mask),
                                                mask |-> mask]))]
    /\ pc' = [pc EXCEPT !["A"] = "done"]
    /\ UNCHANGED <<handler, buffer, inbound, chunks, closed, result, errIters, script, splits>>

NextServices == ServicesAsBitmask \/ ServicesFromBitmask

SpecServices == InitServices /\ [][NextServices]_vars

RoundTripPayload(len, fill) ==
    [i \in 1..len |->
        CASE fill = "zeros" -> 0
          [] fill = "ones" -> 255
          [] fill = "count" -> (i - 1) % 256]
RoundTripLengths ==
    {0, 1, 8, 86, BUFFER_SIZE - HEADER_LEN - 1, BUFFER_SIZE - HEADER_LEN}
RoundTripMessages ==
    {RawMessage_new(Chains[c], Commands[k], RoundTripPayload(len, fill)) :
        c \in DOMAIN Chains, k \in DOMAIN Commands,
        len \in RoundTripLengths, fill \in {"zeros", "ones", "count"}}

InitRoundTrip ==
    /\ \E raw \in RoundTripMessages :
        /\ script = <<raw>>
        /\ handler = [n \in Nodes |->
                        HandshakeInitConversationTopic_new(
                            [LocalDesc EXCEPT !.chain = raw.chain], RemoteAddr)]
    /\ pc = [n \in Nodes |-> IF n = "A" THEN "roundtrip" ELSE "peer"]
    /\ buffer = [n \in Nodes |-> IF n = "A" THEN IOBuffer_default ELSE NoBuffer]
    /\ inbound = [n \in Nodes |-> <<>>]
    /\ chunks = [n \in Nodes |-> <<>>]
    /\ closed = [n \in Nodes |-> FALSE]
    /\ result = [n \in Nodes |-> None]
    /\ events = [n \in Nodes |-> <<>>]
    /\ errIters = [n \in Nodes |-> 0]
    /\ splits = 0

RoundTripWritten(bytes, registered) ==
    /\ IF registered.ok
       THEN buffer' = [buffer EXCEPT !["A"] = registered.val]
       ELSE buffer' = [buffer EXCEPT !["A"] = NoBuffer]
    /\ pc' = [pc EXCEPT !["A"] = IF registered.ok THEN "roundtrip" ELSE "panicked"]
    /\ events' = [events EXCEPT !["A"] = Append(@, Event("write", [len |-> Len(bytes)]))]

RoundTripWrite ==
    /\ pc["A"] = "roundtrip"
    /\ events["A"] = <<>>
    /\ RoundTripWritten(RawMessage_to_bytes(script[1]),
                        register_added_content(
                            fill_writable_part(buffer["A"], RawMessage_to_bytes(script[1])),
                            Len(RawMessage_to_bytes(script[1]))))
    /\ UNCHANGED <<handler, inbound, chunks, closed, result, errIters, script, splits>>

RoundTripConsume ==
    /\ pc["A"] = "roundtrip"
    /\ Len(events["A"]) = 1
    /\ CodecRecord(try_consume_message(buffer["A"], ConnChain("A")))
    /\ UNCHANGED <<pc, handler, inbound, chunks, closed, result, errIters, script, splits>>

NextRoundTrip == RoundTripWrite \/ RoundTripConsume

SpecRoundTrip == InitRoundTrip /\ [][NextRoundTrip]_vars

\* ============================================================== properties
\* The first event a step appends to a node's log.
FirstNewEvent(n) == events'[n][Len(events[n]) + 1]

HandshakeComplete(h) ==
    /\ h.version_msg_sent
    /\ h.version_ack_msg_received
    /\ h.version_msg_received.some

\* C2: whatever calls were made on the handler, an on_message call that returns
\* topic_finished = true leaves the handler with version_msg_sent and
\* version_ack_msg_received set and version_msg_received Some; and no
\* initial_action call returns topic_finished = true.
C2_FinishedOnlyWhenHandshakeComplete ==
    \A n \in Nodes :
        /\ \A i \in DOMAIN events[n] :
              events[n][i].e = "initial_action" => ~events[n][i].topic_finished
        /\ (/\ events[n] # <<>>
            /\ LastEvent(n).e = "on_message"
            /\ LastEvent(n).topic_finished)
           => HandshakeComplete(handler[n])

\* A duplicated Version, then a Verack that finishes the handshake.
C2_Witness ==
    /\ pc["A"] = "harness"
    /\ Len(events["A"]) = 4
    /\ events["A"][2].e = "on_message" /\ events["A"][2].message.kind = "Version"
    /\ events["A"][3].e = "on_message" /\ events["A"][3].message.kind = "Version"
    /\ events["A"][4].e = "on_message" /\ events["A"][4].message.kind = "Verack"
    /\ events["A"][4].topic_finished

\* The handler after initial_action and two on_message calls.
AfterInitialAction(first, second) ==
    LET h0 == HandshakeInitConversationTopic_new(LocalDesc, RemoteAddr)
        h1 == initial_action(h0, CHOOSE t \in Timestamps : TRUE).handler
    IN on_message(on_message(h1, first).handler, second).handler

IsVersionAndVerack(e1, e2) ==
    /\ e1.e = "on_message"
    /\ e2.e = "on_message"
    /\ {e1.message.kind, e2.message.kind} = {"Version", "Verack"}

\* C3: after initial_action, a Version and a Verack in either order are both
\* accepted, the first call reports topic_finished = false and the second
\* true, and the handler and its outcome are then the ones the opposite order
\* produces.
C3_BothArrivalOrdersAgree ==
    (/\ pc["A"] \in {"harness", "consumed"}
     /\ Len(events["A"]) >= 3
     /\ events["A"][1].e = "initial_action"
     /\ IsVersionAndVerack(events["A"][2], events["A"][3]))
    => /\ events["A"][2].ok /\ ~events["A"][2].topic_finished
       /\ events["A"][3].ok /\ events["A"][3].topic_finished
       /\ Len(events["A"]) = 3
          => handler["A"] = AfterInitialAction(events["A"][3].message, events["A"][2].message)
       /\ (Len(events["A"]) = 4 /\ events["A"][4].e = "outcome")
          => /\ result["A"].val.ok
             /\ result["A"].val =
                    outcome(AfterInitialAction(events["A"][3].message,
                                               events["A"][2].message))

\* Verack first, Version second, outcome taken.
C3_Witness ==
    /\ pc["A"] = "consumed"
    /\ Len(events["A"]) = 4
    /\ events["A"][1].e = "initial_action"
    /\ events["A"][2].e = "on_message" /\ events["A"][2].message.kind = "Verack"
    /\ events["A"][3].e = "on_message" /\ events["A"][3].message.kind = "Version"
    /\ events["A"][4].e = "outcome"

\* ------------------------------------------------------------- the driver
\* The messages a node's handler was given, in order.
Dispatched(n) ==
    LET calls == SelectSeq(events[n], LAMBDA e : e.e = "on_message")
    IN [i \in 1..Len(calls) |-> calls[i].message]

\* All input read and drained, or the conversation returned.
Quiescent(n) ==
    \/ pc[n] = "done"
    \/ pc[n] = "read" /\ inbound[n] = <<>>

\* What one read of the whole stream makes the inner loop dispatch.
RECURSIVE SingleReadDrain(_, _)
SingleReadDispatch(h, shifted, message, handler_response) ==
    IF ~handler_response.ok \/ handler_response.action.topic_finished
    THEN <<message>>
    ELSE <<message>> \o SingleReadDrain(handler_response.handler, shifted)
SingleReadMessage(h, shifted, received_message) ==
    IF ~received_message.ok THEN <<>>
    ELSE SingleReadDispatch(h, shifted, received_message.val,
                            on_message(h, received_message.val))
SingleReadOutcome(h, parsed) ==
    CASE parsed.outcome = "Message" ->
            SingleReadMessage(h, parsed.buffer, to_protocol_message(parsed.raw))
      [] parsed.outcome = "SkippedMessage" -> SingleReadDrain(h, parsed.buffer)
      [] OTHER -> <<>>
SingleReadDrain(h, buf) == SingleReadOutcome(h, try_consume_message(buf, h.me.chain))

SingleRead(frames) ==
    LET bytes == Concat([i \in 1..Len(frames) |-> PeerFrameBytes(frames[i])])
    IN SingleReadDrain(
           initial_action(HandshakeInitConversationTopic_new(LocalDesc, RemoteAddr),
                          CHOOSE t \in Timestamps : TRUE).handler,
           register_added_content(fill_writable_part(IOBuffer_default, bytes),
                                  Len(bytes)).val)

\* C1: over a stream whose reads deliver whole frames, a node whose
\* proceed_conversation has returned holds Ok with the descriptor the other
\* node was constructed with.
C1_ReturnsOtherSidesDescriptor ==
    \A n \in Nodes :
        pc[n] = "done" => result[n] = Some(Ok(handler[Other(n)].me))

\* A node's next step is enabled: it has yet to start, has a buffer to
\* drain, or has bytes queued for its next read.
CanStep(n) ==
    \/ pc[n] \in {"start", "drain"}
    \/ pc[n] = "read" /\ inbound[n] # <<>>

\* C1, the part about progress: no node errs, panics or spins in the inner
\* loop's Err arm, a returned node holds Ok, and a node waiting in read with
\* nothing queued is waiting for a peer that can still take a step.
C1_NeitherSideStuck ==
    \A n \in Nodes :
        /\ pc[n] \in {"start", "read", "drain", "done"}
        /\ errIters[n] = 0
        /\ pc[n] = "done" => result[n].val.ok
        /\ (pc[n] = "read" /\ inbound[n] = <<>>) => CanStep(Other(n))

Writes(n) ==
    LET ws == SelectSeq(events[n], LAMBDA e : e.e = "write")
    IN [i \in 1..Len(ws) |-> ws[i].kind]

\* C1, the part about traffic: a node that returned has written exactly one
\* Version and one Verack, and no node ever writes more than these.
C1_OneVersionOneVerackEach ==
    \A n \in Nodes :
        /\ Writes(n) \in {<<>>, <<"Version">>, <<"Version", "Verack">>}
        /\ pc[n] = "done" => Writes(n) = <<"Version", "Verack">>

ServiceBits(services) ==
    UNION {as_u64(services[i]) : i \in DOMAIN services}
KnownServiceBits ==
    UNION {as_u64(NodeServices[i]) : i \in DOMAIN NodeServices}

\* C4: when the peer's stream is a well-formed Version followed by a
\* well-formed Verack, a finished proceed_conversation returns Ok with a
\* NodeDesc whose protocol_version, services and start_height are the ones
\* in the peer's Version frame.
C4_ReturnsPeersVersionFields ==
    (/\ Len(script) = 2
     /\ script[1].f = "Version"
     /\ script[2].f = "Verack"
     /\ pc["A"] = "done")
    => /\ result["A"].val.ok
       /\ result["A"].val.val.protocol_version = script[1].protocol_version
       /\ ServiceBits(result["A"].val.val.services) = script[1].mask \cap KnownServiceBits
       /\ result["A"].val.val.start_height = script[1].start_height

\* C6: once the peer has closed and the read of zero bytes has ended the run
\* before any on_message call reported topic_finished, the run's result is an
\* error and outcome() was not called.
C6_EofBeforeFinishedIsAnError ==
    (/\ pc["A"] = "done"
     /\ closed["A"]
     /\ \A i \in DOMAIN events["A"] :
            events["A"][i].e = "on_message" => ~events["A"][i].topic_finished)
    => /\ ~result["A"].val.ok
       /\ \A i \in DOMAIN events["A"] : events["A"][i].e # "outcome"

\* C7: however the stream was split into reads, once it is all read and
\* drained the handler has been given the messages a single read of the
\* whole stream gives it.
C7_SplitReadsDispatchTheSame ==
    Quiescent("A") => Dispatched("A") = SingleRead(script)

\* ------------------------------------------------------------- the codec
\* A frame try_consume_message is to hand out: the expected chain's magic,
\* a known command, the payload's checksum.
ValidFrame(fr) ==
    /\ fr.magic = ConnChain("A")
    /\ fr.sum = "good"
    /\ \E i \in DOMAIN Commands : Commands[i] = fr.tag
RawOf(fr) == RawMessage_new(fr.magic, fr.tag, CodecPayload(fr))
ConsumeEvent(kind, raw) == Event("try_consume_message", [outcome |-> kind, raw |-> raw])

TwoFramesBuffered ==
    /\ pc["A"] = "codec"
    /\ Len(script) \in {2, 3}
    /\ ValidFrame(script[1]) /\ script[1].cut = 0
    /\ ValidFrame(script[2]) /\ script[2].cut = 0
    /\ Len(script) = 3 => (ValidFrame(script[3]) /\ script[3].cut > 0)
TrailingPart == IF Len(script) = 3 THEN CodecLoaded(script[3]) ELSE <<>>

\* C8: with two complete valid frames in the buffer, alone or followed by
\* the first bytes of a third valid frame, the first three
\* try_consume_message calls return the first frame, the second frame and
\* NoMessage; the mark is then the length of the trailing part (0 without
\* one) and the trailing part's bytes are the buffer's content, from offset 0.
C8_TwoFramesThenNoMessage ==
    TwoFramesBuffered
    => /\ Len(events["A"]) >= 1
          => events["A"][1] = ConsumeEvent("Message", Some(RawOf(script[1])))
       /\ Len(events["A"]) >= 2
          => events["A"][2] = ConsumeEvent("Message", Some(RawOf(script[2])))
       /\ Len(events["A"]) >= 3
          => events["A"][3] = ConsumeEvent("NoMessage", None)
       /\ Len(events["A"]) = 3
          => /\ buffer["A"].mark = Len(TrailingPart)
             /\ content(buffer["A"]) = TrailingPart
             /\ SubSeq(buffer["A"].buffer, 1, Len(TrailingPart)) = TrailingPart

\* Two frames and the header of a third, all three calls made.
C8_Witness ==
    /\ TwoFramesBuffered
    /\ Len(script) = 3
    /\ script[3].cut = HEADER_LEN
    /\ Len(events["A"]) = 3
    /\ events["A"][3].outcome = "NoMessage"
    /\ buffer["A"].mark = HEADER_LEN

HeadMagic(b) == from_le_bytes(SubSeq(content(b), 1, 4))

\* C10: a try_consume_message call on a buffer of at least 24 bytes whose
\* first four bytes are not the magic of expected_chain (another chain's
\* magic, or no chain's) returns an error and leaves the buffer as it was,
\* whatever tag, length, checksum and payload follow; so a call that returns
\* Message or SkippedMessage was made on a frame with the expected magic.
C10_ForeignMagicIsAnError ==
    [][(/\ pc["A"] = "codec"
        /\ Len(events'["A"]) > Len(events["A"])
        /\ FirstNewEvent("A").e = "try_consume_message")
       => /\ (/\ buffer["A"].mark >= HEADER_LEN
              /\ HeadMagic(buffer["A"]) # magic_value(ConnChain("A")))
             => /\ FirstNewEvent("A").outcome = "Err"
                /\ buffer'["A"] = buffer["A"]
          /\ FirstNewEvent("A").outcome \in {"Message", "SkippedMessage"}
             => /\ buffer["A"].mark >= HEADER_LEN
                /\ HeadMagic(buffer["A"]) = magic_value(ConnChain("A"))]_vars

\* The other chain's magic in front of a tag that is not UTF-8 and a wrong
\* checksum: the call has returned the error.
C10_Witness ==
    /\ pc["A"] = "codec"
    /\ ConnChain("A") = "Regtest"
    /\ script # <<>>
    /\ script[1] = CodecFrame("Testnet3", "NonUtf8", "bad")
    /\ Len(events["A"]) = 1
    /\ events["A"][1].outcome = "Err"
    /\ buffer["A"].mark >= HEADER_LEN
    /\ HeadMagic(buffer["A"]) = magic_value("Testnet3")

\* C9: a stream of a valid frame, a checksum-correct frame with an unknown
\* command and another valid frame makes the driver dispatch the two valid
\* frames, in order and as they decode, and nothing else.
C9_UnknownFrameBetweenValidFrames ==
    (/\ Len(script) = 3
     /\ script[1].f # "Unknown"
     /\ script[2].f = "Unknown"
     /\ script[3].f # "Unknown"
     /\ Quiescent("A"))
    => Dispatched("A") = <<DecodedFrame(script[1]), DecodedFrame(script[3])>>

\* C5: an on_message(Verack) call on a handler whose version_msg_sent is false
\* returns the protocol-violation error; a call made by proceed_conversation
\* always finds version_msg_sent set and never gets that error, so
\* proceed_conversation never returns it.
C5_VerackBeforeVersionSent ==
    /\ [][\A n \in Nodes :
            (/\ Len(events'[n]) > Len(events[n])
             /\ FirstNewEvent(n).e = "on_message"
             /\ FirstNewEvent(n).message.kind = "Verack")
            => /\ ~handler[n].version_msg_sent
                  => (~FirstNewEvent(n).ok /\ FirstNewEvent(n).err = VerackBeforeVersionError)
               /\ pc[n] # "harness"
                  => (handler[n].version_msg_sent
                      /\ FirstNewEvent(n).err # VerackBeforeVersionError)]_vars
    /\ [](\A n \in Nodes :
            pc[n] = "done" => result[n] # Some(Err(VerackBeforeVersionError)))

\* A harness that sends Verack as the very first call.
C5_Witness ==
    /\ pc["A"] = "harness"
    /\ Len(events["A"]) = 1
    /\ events["A"][1].e = "on_message"
    /\ events["A"][1].message.kind = "Verack"
    /\ ~events["A"][1].ok
    /\ events["A"][1].err = VerackBeforeVersionError

\* ---------------------------------------------------------- frame round trip
\* C11: a RawMessage of any chain, any known command and a payload of 0 up
\* to 1000 bytes, encoded with to_bytes into an empty IOBuffer, is returned
\* by try_consume_message (called with the same chain) as Message with that
\* chain, command and payload, and the buffer is then empty.
C11_FrameRoundTrip ==
    (pc["A"] \in {"roundtrip", "panicked"} /\ events["A"] # <<>>)
    => /\ pc["A"] = "roundtrip"
       /\ events["A"][1].len = HEADER_LEN + Len(script[1].payload)
       /\ Len(events["A"]) = 2
          => /\ events["A"][2] = ConsumeEvent("Message", Some(script[1]))
             /\ buffer["A"].mark = 0
             /\ content(buffer["A"]) = <<>>

\* The largest frame: 1000 bytes of payload fill the buffer to its end.
C11_Witness ==
    /\ pc["A"] = "roundtrip"
    /\ Len(script[1].payload) = BUFFER_SIZE - HEADER_LEN
    /\ Len(events["A"]) = 2
    /\ events["A"][2].outcome = "Message"


\* C12: for every NodeServiceSet s holding each known flag at most once,
\* as_bitmask sets exactly the bits of the flags in s, and from_bitmask of
\* that mask is s again.
C12_ServicesRoundTrip ==
    (Len(events["A"]) = 2 /\ events["A"][1].e = "as_bitmask")
    => /\ events["A"][1].mask = ServiceBits(script[1].services)
       /\ events["A"][2].e = "from_bitmask"
       /\ events["A"][2].services = script[1].services


HeadComplete(b) ==
    /\ b.mark >= HEADER_LEN
    /\ b.mark >= HEADER_LEN + as_usize(from_le_bytes(SubSeq(content(b), 17, 20)))
HeadChecksum(b) == SubSeq(content(b), 21, HEADER_LEN)
HeadPayload(b) ==
    SubSeq(content(b), HEADER_LEN + 1,
           HEADER_LEN + as_usize(from_le_bytes(SubSeq(content(b), 17, 20))))
BadChecksumAtHead(b) ==
    /\ HeadComplete(b)
    /\ HeadChecksum(b) # sha256d4(HeadPayload(b))

\* C13: a try_consume_message call on a buffer that starts with a complete
\* frame whose checksum field is not the first four bytes of the double
\* SHA-256 of its payload returns an error, whatever the frame's command tag
\* is; it returns neither Message nor SkippedMessage.
C13_BadChecksumIsAnError ==
    [][(/\ pc["A"] = "codec"
        /\ Len(events'["A"]) > Len(events["A"])
        /\ FirstNewEvent("A").e = "try_consume_message"
        /\ BadChecksumAtHead(buffer["A"]))
       => FirstNewEvent("A").outcome = "Err"]_vars


DecodeErrorAtHead(n) ==
    /\ pc[n] = "drain"
    /\ try_consume_message(buffer[n], ConnChain(n)).outcome = "Err"
ReturnsError(n, err) ==
    /\ pc'[n] = "done"
    /\ result'[n] = Some(Err(err))
HandlerErrorStep(n) ==
    /\ Len(events'[n]) > Len(events[n])
    /\ FirstNewEvent(n).e = "on_message"
    /\ ~FirstNewEvent(n).ok

\* C14: in proceed_conversation, a frame decoding error (checksum failure,
\* chain mismatch), an error of on_message and the end of the stream each
\* make the driver return that error in the same step, and a driver that
\* has returned reads, dispatches and writes nothing more.
C14_ErrorsEndTheConversation ==
    [][/\ DecodeErrorAtHead("A")
          => ReturnsError("A", try_consume_message(buffer["A"], ConnChain("A")).err)
       /\ HandlerErrorStep("A") => ReturnsError("A", FirstNewEvent("A").err)
       /\ (pc["A"] = "read" /\ inbound["A"] = <<>> /\ closed["A"])
          => ReturnsError("A", "Remote node hung up")
       /\ pc["A"] # "done"]_vars


\* C15: in every run of proceed_conversation, the reply that on_message
\* produced for an inbound message is written, whole, as the next thing the
\* driver does, so it is in the transport before the next message is
\* dispatched, also when the next frame is already in the buffer; if the
\* write fails, no further message is dispatched.
C15_ReplyWrittenBeforeNextDispatch ==
    /\ \A i \in DOMAIN events["A"] :
        (events["A"][i].e = "on_message" /\ events["A"][i].reply # "none")
        => IF i < Len(events["A"])
           THEN events["A"][i + 1] = Event("write", [kind |-> events["A"][i].reply])
           ELSE pc["A"] = "done" /\ result["A"] = Some(Err(WriteError))
    /\ Len(chunks["B"]) = Len(Writes("A"))
    /\ \A sum \in PrefixSums(chunks["B"], 0) : sum <= Len(inbound["B"])
    /\ Len(inbound["B"]) \in {0} \cup PrefixSums(chunks["B"], 0)

\* A Version and a Ping from the peer, each dispatched and answered: the
\* Verack and the Pong are in the transport behind the local Version.
C15_Witness ==
    /\ script = <<PeerVersionA, [f |-> "Ping"]>>
    /\ pc["A"] = "drain"
    /\ Len(Dispatched("A")) = 2
    /\ Writes("A") = <<"Version", "Verack", "Pong">>
    /\ Len(chunks["B"]) = 3


TopicFinished(n) ==
    \E i \in DOMAIN events[n] :
        /\ events[n][i].e \in {"initial_action", "on_message"}
        /\ events[n][i].topic_finished

\* C16: once the handler has returned an action with topic_finished = true,
\* proceed_conversation has returned: it takes nothing more from the
\* transport and calls on_message no more, also when complete frames are
\* left in the buffer of the last read.
C16_NothingAfterTopicFinished ==
    /\ [](TopicFinished("A") => pc["A"] = "done")
    /\ [][TopicFinished("A")
          => /\ inbound'["A"] = inbound["A"]
             /\ \A i \in DOMAIN events'["A"] :
                   i > Len(events["A"]) => events'["A"][i].e # "on_message"]_vars

\* Version, Verack and Ping taken in one read: the driver has returned after
\* the Verack, the Ping was in the buffer and is never dispatched.
C16_Witness ==
    /\ script = <<PeerVersionA, [f |-> "Verack"], [f |-> "Ping"]>>
    /\ pc["A"] = "done"
    /\ TopicFinished("A")
    /\ Len(Dispatched("A")) = 2
    /\ inbound["A"] = <<>>


OutcomeCalls(n) == {i \in DOMAIN events[n] : events[n][i].e = "outcome"}
OutcomeOnlyAtTheEnd(n) ==
    /\ Cardinality(OutcomeCalls(n)) <= 1
    /\ \A i \in OutcomeCalls(n) : i = Len(events[n]) /\ TopicFinished(n)

OversizeAtHead(n) ==
    /\ pc[n] = "drain"
    /\ buffer[n].mark >= HEADER_LEN
    /\ HeadMagic(buffer[n]) = magic_value(ConnChain(n))
    /\ as_usize(from_le_bytes(SubSeq(content(buffer[n]), 17, 20))) > BUFFER_SIZE - HEADER_LEN

\* C18: a header of the expected chain whose payload_length is more than the
\* buffer holds behind a header (more than 1000) makes try_consume_message
\* return an error, or the driver return one; the call does not return
\* NoMessage and the driver does not go back to reading.
C18_OversizeFrameIsAnError ==
    [][OversizeAtHead("A")
       => /\ try_consume_message(buffer["A"], ConnChain("A")).outcome # "NoMessage"
          /\ pc'["A"] # "read"
          /\ \/ try_consume_message(buffer["A"], ConnChain("A")).outcome = "Err"
             \/ pc'["A"] = "done" /\ ~result'["A"].val.ok]_vars


\* C19: an on_message(Verack) that fails because version_msg_sent is false
\* leaves the handler as it was: version_ack_msg_received, like every other
\* field, still has the value it had before the call.
C19_FailedVerackLeavesHandlerUnchanged ==
    [][(/\ pc["A"] = "harness"
        /\ Len(events'["A"]) > Len(events["A"])
        /\ FirstNewEvent("A").e = "on_message"
        /\ FirstNewEvent("A").message.kind = "Verack"
        /\ ~FirstNewEvent("A").ok)
       => /\ ~handler["A"].version_msg_sent
          /\ handler'["A"] = handler["A"]]_vars


HeadFrameLen(b) == HEADER_LEN + as_usize(from_le_bytes(SubSeq(content(b), 17, 20)))

\* C20: when try_consume_message returns an error (checksum failure, chain
\* mismatch, unknown magic), the buffer has been advanced: its content is
\* shorter than before the call, and where the bad frame was complete the
\* content is what followed that frame.
C20_ErrorAdvancesTheBuffer ==
    [][(/\ pc["A"] = "codec"
        /\ Len(events'["A"]) > Len(events["A"])
        /\ FirstNewEvent("A").e = "try_consume_message"
        /\ FirstNewEvent("A").outcome = "Err")
       => /\ buffer'["A"].mark < buffer["A"].mark
          /\ HeadComplete(buffer["A"])
             => content(buffer'["A"])
                = SubSeq(content(buffer["A"]), HeadFrameLen(buffer["A"]) + 1,
                         buffer["A"].mark)]_vars


\* C21: an iteration of the inner loop in which try_consume_message returns
\* an error is followed by progress: the loop is left for the next read, or
\* the buffer the next iteration decodes is not the one that just failed (the
\* loop body depends on nothing else, so without this it cannot terminate);
\* and a stream of one bad frame, a Version and a Verack, once it is all
\* taken, has finished the handshake.
C21_BadFrameDoesNotStopProgress ==
    /\ [][DecodeErrorAtHead("A")
          => (pc'["A"] # "drain" \/ buffer'["A"] # buffer["A"])]_vars
    /\ []((/\ Len(script) = 3
           /\ script[1] \in {[f |-> "BadChecksum"], [f |-> "WrongChain"]}
           /\ script[2].f = "Version"
           /\ script[3].f = "Verack"
           /\ inbound["A"] = <<>>
           /\ pc["A"] \in {"read", "done"})
          => (pc["A"] = "done" /\ result["A"].val.ok))


\* C22: a try_consume_message call that returns NoMessage was made on a
\* buffer of fewer than 24 bytes or on a complete header whose payload is
\* not all buffered, and leaves the buffer, content and mark, exactly as it
\* was before the call.
C22_NoMessageLeavesTheBuffer ==
    [][(/\ pc["A"] = "codec"
        /\ Len(events'["A"]) > Len(events["A"])
        /\ FirstNewEvent("A").e = "try_consume_message"
        /\ FirstNewEvent("A").outcome = "NoMessage")
       => /\ buffer["A"].mark < HEADER_LEN \/ buffer["A"].mark < HeadFrameLen(buffer["A"])
          /\ buffer'["A"].mark = buffer["A"].mark
          /\ content(buffer'["A"]) = content(buffer["A"])
          /\ buffer'["A"] = buffer["A"]]_vars

\* A Version frame cut inside its payload: the call has returned NoMessage
\* and the header and the 16 payload bytes are still the buffer's content.
C22_Witness ==
    /\ pc["A"] = "codec"
    /\ ConnChain("A") = "Regtest"
    /\ script = <<[CodecFrame("Regtest", "Version", "good") EXCEPT !.cut = HEADER_LEN + 16]>>
    /\ Len(events["A"]) = 1
    /\ events["A"][1].outcome = "NoMessage"
    /\ buffer["A"].mark = HEADER_LEN + 16
    /\ content(buffer["A"]) = CodecLoaded(script[1])


HeadTag(b) == SubSeq(content(b), 5, 16)
UnknownCommandAtHead(b, chain) ==
    /\ HeadComplete(b)
    /\ HeadMagic(b) = magic_value(chain)
    /\ HeadChecksum(b) = sha256d4(HeadPayload(b))
    /\ \A i \in DOMAIN Commands : Command_as_bytes(Commands[i]) # HeadTag(b)

\* C23: a try_consume_message call on a buffer that starts with a complete,
\* checksum-correct frame of the expected chain whose command tag is none of
\* the four known tags (NUL-padded or not, UTF-8 or not) returns
\* SkippedMessage and takes exactly the 24 + payload_length bytes of that
\* frame off the front of the buffer; it returns no error and does not abort.
C23_UnknownCommandIsSkipped ==
    [][(/\ pc["A"] = "codec"
        /\ UnknownCommandAtHead(buffer["A"], ConnChain("A"))
        /\ Len(events'["A"]) > Len(events["A"])
        /\ FirstNewEvent("A").e = "try_consume_message")
       => /\ FirstNewEvent("A").outcome = "SkippedMessage"
          /\ buffer'["A"].mark = buffer["A"].mark - HeadFrameLen(buffer["A"])
          /\ content(buffer'["A"])
             = SubSeq(content(buffer["A"]), HeadFrameLen(buffer["A"]) + 1,
                      buffer["A"].mark)]_vars


UndecodableAtHead(n) ==
    /\ pc[n] = "drain"
    /\ try_consume_message(buffer[n], ConnChain(n)).outcome = "Message"
    /\ ~to_protocol_message(try_consume_message(buffer[n], ConnChain(n)).raw).ok

\* C24: when the frame at the head of the buffer has a known command and a
\* correct checksum but does not decode into a typed message (a Version
\* frame with a payload shorter than the decoder reads), the driver stays in
\* its drain loop with the buffer advanced past that frame and returns
\* nothing; only an error of on_message ends the conversation.
C24_UndecodableFrameIsPassedOver ==
    [][UndecodableAtHead("A")
       => /\ pc'["A"] = "drain"
          /\ result'["A"] = None
          /\ buffer'["A"] = try_consume_message(buffer["A"], ConnChain("A")).buffer
          /\ events'["A"] = events["A"]]_vars


FinishingReplies(n) ==
    {i \in DOMAIN events[n] :
        /\ events[n][i].e = "on_message"
        /\ events[n][i].topic_finished
        /\ events[n][i].reply # "none"}
LastWritten(n, len) ==
    SubSeq(inbound[Other(n)], Len(inbound[Other(n)]) - len + 1, Len(inbound[Other(n)]))

\* C25: when the action that reports topic_finished = true carries a reply
\* (the Verack for a Version that came after the peer's Verack), the driver
\* writes it before it leaves the loop: unless that write fails, the Verack
\* frame is the last thing in the transport when outcome() is called and
\* the driver returns.
C25_FinishingReplyIsWritten ==
    \A i \in FinishingReplies("A") :
        /\ events["A"][i].reply = "Verack"
        /\ pc["A"] = "done"
        /\ IF result["A"] = Some(Err(WriteError))
           THEN Len(events["A"]) = i
           ELSE /\ Len(events["A"]) = i + 2
                /\ events["A"][i + 1] = Event("write", [kind |-> "Verack"])
                /\ events["A"][i + 2].e = "outcome"
                /\ LastWritten("A", HEADER_LEN)
                   = RawMessage_to_bytes(RawMessage_new(ConnChain("A"), "Verack", <<>>))

\* The peer's Verack, then its Version B: the reply is in the transport and
\* the driver has returned the outcome.
C25_Witness ==
    /\ script = <<[f |-> "Verack"], PeerVersionB>>
    /\ pc["A"] = "done"
    /\ FinishingReplies("A") = {Len(events["A"]) - 2}
    /\ result["A"].val.ok
    /\ Len(chunks["B"]) = 2
    /\ LastWritten("A", HEADER_LEN)
       = RawMessage_to_bytes(RawMessage_new("Regtest", "Verack", <<>>))


WrittenKind(n, kind) == {i \in DOMAIN Writes(n) : Writes(n)[i] = kind}
DispatchedKind(n, kind) == {i \in DOMAIN Dispatched(n) : Dispatched(n)[i].kind = kind}
VersionFrameFirst(n) ==
    /\ Writes(n) # <<>>
    /\ Writes(n)[1] = "Version"
    /\ chunks[Other(n)] # <<>>
    /\ SubSeq(inbound[Other(n)], 1, 16)
       = to_le_bytes(magic_value(ConnChain(n))) \o Command_as_bytes("Version")
\* the run ended in a write_all that failed; the message was not written
WriteFailed(n) == pc[n] = "done" /\ result[n] = Some(Err(WriteError))
VerackWriteFailed(n) ==
    /\ WriteFailed(n)
    /\ events[n][Len(events[n])].e = "on_message"
    /\ events[n][Len(events[n])].reply = "Verack"

C27_PingAndPongChangeNothing ==
    [][(/\ pc["A"] = "harness"
        /\ Len(events'["A"]) > Len(events["A"])
        /\ FirstNewEvent("A").e = "on_message"
        /\ FirstNewEvent("A").message.kind \in {"Ping", "Pong"})
       => /\ FirstNewEvent("A").ok
          /\ ~FirstNewEvent("A").topic_finished
          /\ FirstNewEvent("A").reply
             = (IF FirstNewEvent("A").message.kind = "Ping" THEN "Pong" ELSE "none")
          /\ handler'["A"] = handler["A"]]_vars

\* A Ping dispatched after the handshake is complete: Pong in reply, not
\* finished.
C27_Witness ==
    /\ pc["A"] = "harness"
    /\ Len(events["A"]) = 4
    /\ events["A"][1].e = "initial_action"
    /\ events["A"][3].e = "on_message" /\ events["A"][3].topic_finished
    /\ events["A"][4].e = "on_message" /\ events["A"][4].message.kind = "Ping"
    /\ events["A"][4].reply = "Pong"
    /\ ~events["A"][4].topic_finished
    /\ HandshakeComplete(handler["A"])


LastVersionDispatched(n) ==
    Dispatched(n)[CHOOSE i \in DispatchedKind(n, "Version") :
                      \A j \in DispatchedKind(n, "Version") : j <= i]

\* C28: outcome() returns an error exactly when the handler was never given
\* a Version; otherwise it returns a NodeDesc with the local chain and the
\* protocol_version, services, sub_ver and start_height of the Version
\* message the handler received, whether or not a Verack was received or the
\* conversation was finished.
C28_OutcomeNeedsOnlyAVersion ==
    [][(/\ pc["A"] = "harness"
        /\ Len(events'["A"]) > Len(events["A"])
        /\ FirstNewEvent("A").e = "outcome")
       => /\ result'["A"].some
          /\ result'["A"].val.ok <=> DispatchedKind("A", "Version") # {}
          /\ result'["A"].val.ok
             => result'["A"].val.val
                = [chain |-> handler["A"].me.chain,
                   protocol_version |-> LastVersionDispatched("A").protocol_version,
                   services |-> LastVersionDispatched("A").services,
                   sub_ver |-> LastVersionDispatched("A").sub_ver,
                   start_height |-> LastVersionDispatched("A").start_height]]_vars

\* outcome() on a handler that was given the peer's Version B and nothing
\* else: no initial_action, no Verack.
C28_Witness ==
    /\ pc["A"] = "consumed"
    /\ Len(events["A"]) = 2
    /\ events["A"][1].e = "on_message"
    /\ events["A"][1].message.kind = "Version"
    /\ events["A"][1].message.protocol_version = PeerVersionB.protocol_version
    /\ events["A"][2].e = "outcome"
    /\ result["A"].val.ok
    /\ result["A"].val.val.protocol_version = PeerVersionB.protocol_version
    /\ ~handler["A"].version_msg_sent
    /\ ~handler["A"].version_ack_msg_received


\* C29: after any sequence of register_added_content, shift_left and
\* try_consume_message calls that trips no assertion, the array keeps its 1024
\* bytes, 0 <= mark <= 1024, content() is exactly bytes [0, mark),
\* expose_writable_part() is exactly bytes [mark, 1024), and the two lengths sum
\* to 1024.
C29_BufferShape ==
    /\ Len(buffer["A"].buffer) = BUFFER_SIZE
    /\ 0 <= buffer["A"].mark
    /\ buffer["A"].mark <= BUFFER_SIZE
    /\ content(buffer["A"]) = [i \in 1..buffer["A"].mark |-> buffer["A"].buffer[i]]
    /\ expose_writable_part(buffer["A"])
           = [i \in 1..(BUFFER_SIZE - buffer["A"].mark) |->
                  buffer["A"].buffer[buffer["A"].mark + i]]
    /\ Len(content(buffer["A"])) + Len(expose_writable_part(buffer["A"])) = BUFFER_SIZE

\* each of the three calls has been made, none tripped an assertion, and the
\* buffer is neither empty nor full
C29_Witness ==
    /\ pc["A"] = "buffer"
    /\ {events["A"][i].e : i \in 1..Len(events["A"])}
           = {"register_added_content", "shift_left", "try_consume_message"}
    /\ buffer["A"].mark > 0
    /\ buffer["A"].mark < BUFFER_SIZE

ShiftLeftStep ==
    /\ Len(events["A"]') = Len(events["A"]) + 1
    /\ events["A"]'[Len(events["A"]')].e = "shift_left"
    /\ events["A"]'[Len(events["A"]')].ok

\* C30: for every buffer state and every k <= mark, after shift_left(k) the
\* mark is the old mark minus k and content() is the old content without its
\* first k bytes, in the same order and starting at offset 0.
C30_ShiftLeftKeepsTheSuffix ==
    [][ShiftLeftStep =>
          /\ buffer["A"]'.mark = buffer["A"].mark - events["A"]'[Len(events["A"]')].size
          /\ content(buffer["A"]')
                 = SubSeq(content(buffer["A"]),
                          events["A"]'[Len(events["A"]')].size + 1,
                          buffer["A"].mark)]_vars

\* a shift_left by some but not all of a content whose bytes differ
C30_Witness ==
    /\ pc["A"] = "buffer"
    /\ events["A"] # <<>>
    /\ LastEvent("A").e = "shift_left"
    /\ LastEvent("A").ok
    /\ LastEvent("A").size > 0
    /\ buffer["A"].mark > 1
    /\ content(buffer["A"])[1] # content(buffer["A"])[2]


\* a step in which the driver's task ends by a panic
DriverPanics == pc["A"] # "panicked" /\ pc["A"]' = "panicked"

\* C31: in every run of proceed_conversation, whatever the inbound bytes and
\* the read sizes, no assertion of the buffer fails: register_added_content(n)
\* is called with mark + n <= 1024 (no read ends in a panic, and the content
\* registered fits the array), and every shift_left(k) issued by
\* try_consume_message has k <= mark (a panic of try_consume_message is the
\* unwrap on a command tag that is no UTF-8 text, never the assertion).
C31_BufferAssertionsNeverFail ==
    /\ [](pc["A"] = "drain" =>
            /\ buffer["A"].mark <= BUFFER_SIZE
            /\ try_consume_message(buffer["A"], ConnChain("A")).outcome
                   \in {"Message", "SkippedMessage"}
               => HeadFrameLen(buffer["A"]) <= buffer["A"].mark)
    /\ [][DriverPanics =>
            /\ pc["A"] # "read"
            /\ pc["A"] = "drain"
                   /\ try_consume_message(buffer["A"], ConnChain("A")).outcome = "Panic"
               => ~from_utf8_ok(HeadTag(buffer["A"]), 1)]_vars

\* a read that filled the whole array, after a frame was taken off an earlier
\* buffer and dispatched
C31_Witness ==
    /\ pc["A"] = "drain"
    /\ buffer["A"].mark = BUFFER_SIZE
    /\ \E i \in 1..Len(events["A"]) : events["A"][i].e = "on_message"


\* C32: across any sequence of initial_action and on_message calls the
\* handshake flags only ever go up: version_msg_sent and
\* version_ack_msg_received never change from true to false, and
\* version_msg_received never changes from Some to None.
C32_FlagsAreMonotonic ==
    [][/\ handler["A"].version_msg_sent => handler["A"]'.version_msg_sent
       /\ handler["A"].version_ack_msg_received => handler["A"]'.version_ack_msg_received
       /\ handler["A"].version_msg_received.some => handler["A"]'.version_msg_received.some]_vars

\* initial_action called on a handler that has recorded a Version and a
\* Verack, which it still holds
C32_Witness ==
    /\ Len(events["A"]) > 1
    /\ LastEvent("A").e = "initial_action"
    /\ handler["A"].version_msg_sent
    /\ handler["A"].version_ack_msg_received
    /\ handler["A"].version_msg_received.some


\* C33: whenever proceed_conversation reaches handler.outcome() for the
\* handshake handler, outcome returns Ok: the driver gets there only after an
\* action with topic_finished = true, and the handler then holds a Version
\* (version_msg_received is Some).
C33_OutcomeIsOkWhenReached ==
    /\ \A i \in 1..Len(events["A"]) :
          events["A"][i].e = "outcome" =>
              /\ events["A"][i].ok
              /\ \E j \in 1..(i - 1) :
                    /\ events["A"][j].e = "on_message"
                    /\ events["A"][j].topic_finished
    /\ OutcomeCalls("A") # {} =>
          /\ pc["A"] = "done"
          /\ result["A"].some
          /\ result["A"].val.ok
          /\ handler["A"].version_msg_received.some

\* outcome() reached right after the Verack for the Version that finished
\* the handshake was written, and the NodeDesc is that Version's
C33_Witness ==
    /\ pc["A"] = "done"
    /\ Len(events["A"]) > 2
    /\ LastEvent("A").e = "outcome"
    /\ events["A"][Len(events["A"]) - 1].e = "write"
    /\ result["A"].some
    /\ result["A"].val.ok
    /\ result["A"].val.val.protocol_version = PeerVersionB.protocol_version


\* the on_message calls that were given a Version
VersionCalls(n) ==
    {i \in DOMAIN events[n] :
        events[n][i].e = "on_message" /\ events[n][i].message.kind = "Version"}

\* C34: when the peer sends more than one Version before the handshake
\* finishes, each one is answered with its own Verack and replaces the one
\* recorded before, so that the NodeDesc returned by outcome is built from the
\* last Version received before the conversation finished.
C34_LastVersionWins ==
    /\ \A i \in VersionCalls("A") :
          /\ events["A"][i].ok
          /\ events["A"][i].reply = "Verack"
    /\ DispatchedKind("A", "Version") # {} =>
          /\ handler["A"].version_msg_received = Some(LastVersionDispatched("A"))
          /\ result["A"].some /\ result["A"].val.ok =>
                result["A"].val.val
                    = [chain |-> handler["A"].me.chain,
                       protocol_version |-> LastVersionDispatched("A").protocol_version,
                       services |-> LastVersionDispatched("A").services,
                       sub_ver |-> LastVersionDispatched("A").sub_ver,
                       start_height |-> LastVersionDispatched("A").start_height]

\* the peer's Version A, then its Version B, then its Verack: the handshake
\* finished and the NodeDesc carries what B announced, not what A did
C34_Witness ==
    /\ pc["A"] = "done"
    /\ Cardinality(DispatchedKind("A", "Version")) = 2
    /\ Cardinality({Dispatched("A")[i].protocol_version : i \in DispatchedKind("A", "Version")}) = 2
    /\ LastVersionDispatched("A").protocol_version = PeerVersionB.protocol_version
    /\ result["A"].some
    /\ result["A"].val.ok
    /\ result["A"].val.val.protocol_version = PeerVersionB.protocol_version
    /\ result["A"].val.val.services # <<>>


\* a step in which one call of read, skip_bytes or a fixed-width reader was
\* made on the parser
ParserReadOrSkipStep ==
    /\ pc["A"] = "parser"
    /\ Len(events["A"]') = Len(events["A"]) + 1
    /\ events["A"]'[Len(events["A"]')].e \in {"read", "skip_bytes"} \cup ParserFixedReads

\* C35: every ByteBufferParser read or skip of n bytes either succeeds,
\* advancing pos by exactly n and returning exactly the n bytes at
\* [pos, pos + n), or, when fewer than n bytes remain, fails with an
\* UnexpectedEof error and leaves pos unchanged; pos never exceeds the length
\* of the slice (whichever method was called, parse_net_addr included).
C35_ReadsAreAllOrNothing ==
    /\ [](pc["A"] = "parser" => buffer["A"].pos <= Len(buffer["A"].buffer))
    /\ [][ParserReadOrSkipStep =>
            /\ buffer["A"]'.buffer = buffer["A"].buffer
            /\ IF events["A"]'[Len(events["A"]')].size <= remaining(buffer["A"])
               THEN /\ events["A"]'[Len(events["A"]')].ok
                    /\ buffer["A"]'.pos
                           = buffer["A"].pos + events["A"]'[Len(events["A"]')].size
                    /\ events["A"]'[Len(events["A"]')].e = "read" =>
                           events["A"]'[Len(events["A"]')].bytes
                               = [i \in 1..events["A"]'[Len(events["A"]')].size |->
                                      buffer["A"].buffer[buffer["A"].pos + i]]
               ELSE /\ ~events["A"]'[Len(events["A"]')].ok
                    /\ events["A"]'[Len(events["A"]')].err = "UnexpectedEof"
                    /\ buffer["A"]'.pos = buffer["A"].pos]_vars

\* a read from the middle of the slice that returned bytes, then a read of
\* one byte more than what was left, which failed
C35_Witness ==
    /\ pc["A"] = "parser"
    /\ Len(events["A"]) = 3
    /\ events["A"][1].e = "skip_bytes" /\ events["A"][1].ok /\ events["A"][1].size > 0
    /\ events["A"][2].e = "read" /\ events["A"][2].ok /\ events["A"][2].size > 1
    /\ events["A"][3].e = "read" /\ ~events["A"][3].ok
    /\ buffer["A"].pos > 0
    /\ buffer["A"].pos < Len(buffer["A"].buffer)

====
